---- MODULE Spec2Model ----
(***************************************************************************)
(* The tarot embedding-index pipeline: scripts/training/buildVectorIndex.py *)
(* (build_index), scripts/training/testIndex.py (test_index) and           *)
(* scripts/training/trainLoRA.py (train), run as commands over a shared    *)
(* file system (data/raw_images, data/indices, models/adapters and the     *)
(* cross-deck export document).                                            *)
(*                                                                         *)
(* File names and card names are Python str values, modelled as sequences  *)
(* of one-character strings.  List positions keep Python's 0-based values; *)
(* a Python list is a TLA+ sequence, so list[i] is seq[i + 1].             *)
(***************************************************************************)
EXTENDS Integers, Sequences, FiniteSets, TLC

VARIABLES
    rawDir,      \* data/raw_images/<deck>: [exists, listing]
    adapterDir,  \* models/adapters/<deck>: the number of times an adapter was
                 \* saved there; 0 when the directory does not exist
    indexFile,   \* data/indices/<deck>/index.faiss: [exists, content]
    metaFile,    \* data/indices/<deck>/metadata.json: [exists, content]
    exportFile,  \* the export documents, by export path: [exists, content]
    tree,        \* the files and directories rename.py works on: the root node
    inputDir,    \* data/raw_images/thoth_photos: the photographs
    outputDir,   \* data/raw_images/thoth: the card files written, by name
    pc,          \* position of each command runner
    loc,         \* locals of the command a runner executes
    cmd,         \* the command a runner executes or executed last
    stdout,      \* lines printed by the runner's current or last command
    exit,        \* exit status of the runner's last finished command
    runs         \* number of commands started

vars == <<rawDir, adapterDir, indexFile, metaFile, exportFile,
          tree, inputDir, outputDir, pc, loc, cmd, stdout, exit, runs>>

fsVars == <<rawDir, adapterDir, indexFile, metaFile, exportFile,
           tree, inputDir, outputDir>>

-----------------------------------------------------------------------------
(* Bounds of the model *)

\* commands run in one behaviour
MaxRuns == 2

\* runs of rename.py in one behaviour
MaxCliRuns == 2

\* runs of splice_card_photos.py in one behaviour
MaxSpliceRuns == 2

\* images that fail in one build
MaxFail == 2

\* the same two for the export and the query specifications
MaxExportRuns == 2

MaxExportFail == 1

MaxQueryRuns == 3

MaxQueryFail == 1
MaxStem == 3
MaxNameRuns == 1
MaxNameFail == 1
MaxRaceRuns == 2
MaxRaceFail == 1

-----------------------------------------------------------------------------
(* Python str operations *)

RECURSIVE StartsWithAt(_, _, _)
StartsWithAt(s, t, i) ==
    IF i > Len(t) THEN TRUE
    ELSE s[Len(s) - Len(t) + i] = t[i] /\ StartsWithAt(s, t, i + 1)

\* str.endswith(suffix)
EndsWith(s, suffix) ==
    Len(s) >= Len(suffix) /\ StartsWithAt(s, suffix, 1)

\* str.endswith(('.jpg', '.jpeg', '.png'))
ImageSuffixes ==
    { <<".", "j", "p", "g">>, <<".", "j", "p", "e", "g">>, <<".", "p", "n", "g">> }

IsImageFile(f) == \E suf \in ImageSuffixes : EndsWith(f, suf)

RECURSIVE SplitFirst(_, _)
\* str.split(sep)[0]: the part before the first occurrence of sep
SplitFirst(s, sep) ==
    IF s = <<>> \/ Head(s) = sep THEN <<>>
    ELSE <<Head(s)>> \o SplitFirst(Tail(s), sep)

\* str.replace(old, new) for one-character old and new
Replace(s, old, new) ==
    [i \in 1..Len(s) |-> IF s[i] = old THEN new ELSE s[i]]

\* card_name = img_file.split('.')[0].replace('_', ' ').replace('-', ' ')
CardName(img_file) ==
    Replace(Replace(SplitFirst(img_file, "."), "_", " "), "-", " ")

-----------------------------------------------------------------------------
(* Decks, files and paths *)

Decks == {"rws", "marseille", "thoth", "custom"}

File01 == <<"0", "1", "_", "f", "o", "o", "l", ".", "j", "p", "g">>
File02 == <<"0", "2", "_", "m", "a", "g", "i", "c", "i", "a", "n", ".", "j", "p", "g">>
File03 == <<"0", "3", "_", "p", "r", "i", "e", "s", "t", "e", "s", "s", ".", "j", "p", "g">>
FileTheFoolU == <<"t", "h", "e", "_", "f", "o", "o", "l", ".", "j", "p", "g">>
FileTheFoolD == <<"t", "h", "e", "-", "f", "o", "o", "l", ".", "p", "n", "g">>
FileNotes == <<"n", "o", "t", "e", "s", ".", "t", "x", "t">>

\* a copy of the_fool.jpg under another name: the same picture
FileFoolCopy == <<"f", "o", "o", "l", "_", "c", "o", "p", "y", ".", "j", "p", "g">>

\* file names of every shape: a stem of up to MaxStem characters, letters,
\* separators and dots, and an image extension
StemChars == {"a", "_", "-", "."}

Stems == UNION {[1..n -> StemChars] : n \in 1..MaxStem}

NameInputs ==
    {stem \o ext : stem \in Stems,
                   ext \in {<<".", "j", "p", "g">>, <<".", "p", "n", "g">>}}

\* the five images an earlier build of the marseille deck indexed
OldFile(n) == <<"m", ToString(n), ".", "p", "n", "g">>

\* os.path.join("data", "raw_images", deck)
ImageDirPath(deck) == <<"data", "raw_images", deck>>

\* os.path.join("models", "adapters", deck)
AdapterPath(deck) == <<"models", "adapters", deck>>

IndexPath(deck) == <<"data", "indices", deck, "index.faiss">>

MetadataPath(deck) == <<"data", "indices", deck, "metadata.json">>

\* --export_json values: the documented path and a bare file name
ExportPathDoc == <<"data", "vision", "fine-tuned", "prototypes.json">>

ExportPathBare == <<"prototypes.json">>

ExportPaths == {ExportPathDoc, ExportPathBare}

\* os.path.dirname(export_path)
DirName(path) == SubSeq(path, 1, Len(path) - 1)

-----------------------------------------------------------------------------
(* Embedding vectors: fixed point, UnitLength stands for 1.0 *)

UnitLength == 65

\* directions of length UnitLength
Directions ==
    << <<65, 0>>, <<63, 16>>, <<60, 25>>, <<56, 33>>, <<52, 39>>,
       <<39, 52>>, <<33, 56>>, <<25, 60>>, <<16, 63>>, <<0, 65>> >>

Dot(u, v) == u[1] * v[1] + u[2] * v[2]

\* tensor.norm(p=2, dim=-1)
Norm(v) ==
    CHOOSE n \in 0..(4 * UnitLength) :
        n * n <= Dot(v, v) /\ (n + 1) * (n + 1) > Dot(v, v)

\* features that are used as the model returns them
NormalizeSkipped(v) == v

\* features / features.norm(p=2, dim=-1, keepdim=True)
Normalize(v) == [i \in 1..Len(v) |-> (v[i] * UnitLength) \div Norm(v)]

\* the model variants: the base model, or the base model fused with the
\* adapter stored under models/adapters/<deck>
BaseModel == [adapter |-> "none"]

Fused(deck) == [adapter |-> deck]

AdapterShift(variant) ==
    CASE variant.adapter = "none" -> 0
      [] variant.adapter = "rws" -> 3
      [] variant.adapter = "marseille" -> 4
      [] variant.adapter = "thoth" -> 6
      [] OTHER -> 7

ImageNo(f) ==
    CASE f = File01 -> 1
      [] f = File02 -> 2
      [] f = File03 -> 3
      [] f = FileTheFoolU -> 4
      [] f = FileTheFoolD -> 5
      [] f = FileFoolCopy -> 4
      [] \E n \in 1..5 : f = OldFile(n) -> 5 + (CHOOSE n \in 1..5 : f = OldFile(n))
      [] OTHER -> 0

\* model.get_image_features(**inputs): not normalized
ImageFeatures(variant, f) ==
    LET dir == Directions[((ImageNo(f) + AdapterShift(variant)) % 10) + 1]
        mag == (ImageNo(f) % 3) + 1
    IN  [i \in 1..2 |-> mag * dir[i]]

Variants == {BaseModel} \cup {Fused(d) : d \in Decks}

ImageFiles ==
    {File01, File02, File03, FileTheFoolU, FileTheFoolD, FileFoolCopy}
        \cup {OldFile(n) : n \in 1..5} \cup NameInputs

\* lines 63-70 of build_index for every model variant and image: the
\* normalized image features
ImageEmbeddings ==
    [v \in Variants |-> [f \in ImageFiles |-> Normalize(ImageFeatures(v, f))]]

Queries == {"a tarot card of the fool", "a tarot card of the magician"}

\* model.get_text_features(**inputs): not normalized
TextFeatures(variant, text) ==
    LET n == IF text = "a tarot card of the fool" THEN 1 ELSE 2
        dir == Directions[((n + AdapterShift(variant) + 1) % 10) + 1]
    IN  [i \in 1..2 |-> 2 * dir[i]]

\* lines 56-62 of test_index for every model variant and query text
TextEmbeddings ==
    [v \in Variants |-> [t \in Queries |-> Normalize(TextFeatures(v, t))]]

-----------------------------------------------------------------------------
(* JSON documents (json.load / json.dump) *)

EmptyMap == [k \in {} |-> 0]

\* a JSON value at the top of a document or under "deckStyles":
\* kind is "object", "array", "string", "number", "null", or "absent" for a
\* missing key; map holds an object's members
JsonValue(kind, map) == [kind |-> kind, map |-> map]

\* a parsed document: its top-level kind and, for an object, the value
\* of its "deckStyles" key.  kind "garbage" is text json.load rejects.
Document(kind, ds) == [kind |-> kind, ds |-> ds]

NoDeckStyles == JsonValue("absent", EmptyMap)

\* full_export = {}
EmptyDocument == Document("object", NoDeckStyles)

\* a file: exists, and its content
File(content) == [exists |-> TRUE, content |-> content]

NoFile(content) == [exists |-> FALSE, content |-> content]

\* list.tolist() keeps the (1, d) shape of one appended embedding
CardEntry(embedding) == [embedding |-> embedding, count |-> 1]

\* an export that overwrites: the existing document is never read
ReadExportFresh(file) == EmptyDocument

\* lines 117-124: full_export = {}; json.load when the file exists, a
\* failing load is swallowed by the bare except
ReadExport(file) ==
    IF file.exists /\ file.content.kind # "garbage"
    THEN file.content
    ELSE EmptyDocument

\* an export that uses the deck name as it was given
AppDeckIdRaw(deck) == deck

\* deck_id_map.get(args.deck, args.deck)
AppDeckId(deck) ==
    CASE deck = "rws" -> "rws-1909"
      [] deck = "thoth" -> "thoth"
      [] deck = "marseille" -> "marseille"
      [] OTHER -> deck

RECURSIVE CardsData(_, _, _)
\* lines 137-145: cards_data[meta["card_name"]] = {embedding, count},
\* for i, meta in enumerate(metadata) (a later equal key replaces)
CardsData(metadata, embeddings, n) ==
    IF n = 0 THEN EmptyMap
    ELSE LET before == CardsData(metadata, embeddings, n - 1)
             name == metadata[n].card_name
         IN  [c \in DOMAIN before \cup {name} |->
                 IF c = name THEN CardEntry(embeddings[n]) ELSE before[c]]

\* lines 126-149: the merged document, or raised = TRUE where Python
\* raises TypeError ("in" on a number or null, item assignment or
\* subscript on a value that is no dict)
MergeExport(full_export, deck, cards_data) ==
    LET withDs ==
            IF full_export.ds.kind = "absent"
            THEN JsonValue("object", EmptyMap)
            ELSE full_export.ds
        entry == [cards |-> cards_data]
        id == AppDeckId(deck)
    IN  IF full_export.kind # "object" \/ withDs.kind # "object"
        THEN [raised |-> TRUE, doc |-> full_export]
        ELSE [raised |-> FALSE,
              doc |-> Document("object",
                        JsonValue("object",
                            [d \in DOMAIN withDs.map \cup {id} |->
                                IF d = id THEN entry ELSE withDs.map[d]]))]

-----------------------------------------------------------------------------
(* build_index: directory listing and the embedding loop *)

Range(s) == {s[i] : i \in 1..Len(s)}

RECURSIVE Perms(_)
Perms(S) ==
    IF S = {} THEN {<<>>}
    ELSE UNION {{<<x>> \o p : p \in Perms(S \ {x})} : x \in S}

\* os.listdir(image_dir): the names of the directory, in the arbitrary
\* order the file system keeps for it
ListDir(dir) == dir.listing

Msg(text, arg) == [text |-> text, arg |-> arg]

NoPath == <<>>

\* os.path.exists of a path under models/adapters
AdapterExists(path) == \E d \in Decks : path = AdapterPath(d) /\ adapterDir[d] > 0

\* buildVectorIndex.py lines 32-37: the adapter is the one --adapter_path
\* names, when the option is given and the path exists
BuildVariant(adapter_path) ==
    IF adapter_path # NoPath /\ AdapterExists(adapter_path)
    THEN Fused(adapter_path[3])
    ELSE BaseModel

\* testIndex.py lines 43-49: the adapter is models/adapters/<deck>
QueryVariant(deck) ==
    IF AdapterExists(AdapterPath(deck)) THEN Fused(deck) ELSE BaseModel

VariantMsg(variant, path) ==
    IF variant = BaseModel
    THEN Msg("Using base model", NoPath)
    ELSE Msg("Loading LoRA adapter from", path)

\* a loop whose failure strikes after embeddings.append: the embedding of
\* a failed image stays in the list, its metadata record is never added
ProcessImageKeepsFailed(acc, idx, img_file, failed, variant) ==
    IF failed
    THEN [acc EXCEPT
            !.embeddings = Append(@, <<ImageEmbeddings[variant][img_file]>>),
            !.printed = Append(@, [text |-> "Error processing", arg |-> img_file])]
    ELSE [acc EXCEPT
            !.embeddings = Append(@, <<ImageEmbeddings[variant][img_file]>>),
            !.metadata = Append(@, [id |-> idx,
                                    filename |-> img_file,
                                    card_name |-> CardName(img_file)])]

\* one iteration of the loop of lines 60-82; failed: an exception is raised
\* in lines 63-70 (decoding, preprocessing or embedding the image)
ProcessImage(acc, idx, img_file, failed, variant) ==
    IF failed
    THEN [acc EXCEPT !.printed = Append(@, Msg("Error processing", img_file))]
    ELSE [acc EXCEPT
            !.embeddings = Append(@, <<ImageEmbeddings[variant][img_file]>>),
            !.metadata = Append(@, [id |-> idx,
                                    filename |-> img_file,
                                    card_name |-> CardName(img_file)])]

RECURSIVE ProcessImagesStopAtFailure(_, _, _, _, _)
\* a loop whose try statement encloses the whole loop: the first failure
\* ends the processing of the remaining images
ProcessImagesStopAtFailure(acc, idx, image_files, fails, variant) ==
    IF idx >= Len(image_files) THEN acc
    ELSE IF image_files[idx + 1] \in fails
    THEN ProcessImage(acc, idx, image_files[idx + 1], TRUE, variant)
    ELSE ProcessImagesStopAtFailure(
            ProcessImage(acc, idx, image_files[idx + 1], FALSE, variant),
            idx + 1, image_files, fails, variant)

RECURSIVE ProcessImages(_, _, _, _, _)
\* for idx, img_file in enumerate(image_files), from position idx on
ProcessImages(acc, idx, image_files, fails, variant) ==
    IF idx >= Len(image_files) THEN acc
    ELSE ProcessImages(
            ProcessImage(acc, idx, image_files[idx + 1],
                         image_files[idx + 1] \in fails, variant),
            idx + 1, image_files, fails, variant)

\* np.vstack(embeddings): the (1, d) arrays stacked into an (n, d) matrix
VStack(embeddings) == [i \in 1..Len(embeddings) |-> embeddings[i][1]]

\* a build that lacks the test of lines 84-86: an empty index is built
BuildEmbeddingsNoEmptyCheck(deck, dir, listing, fails, variant) ==
    LET image_files == SelectSeq(listing, IsImageFile)
        acc == ProcessImages([embeddings |-> <<>>, metadata |-> <<>>,
                              printed |-> <<Msg("Found images", Len(image_files))>>],
                             0, image_files, fails, variant)
        none == [abort |-> TRUE, embeddings |-> <<>>, metadata |-> <<>>,
                 index |-> <<>>, printed |-> <<>>]
    IN  IF ~dir.exists
        THEN [none EXCEPT !.printed =
                <<Msg("Error: Image directory not found", ImageDirPath(deck))>>]
        ELSE IF image_files = <<>>
        THEN [none EXCEPT !.printed = <<Msg("No images found", NoPath)>>]
        ELSE [abort |-> FALSE,
              embeddings |-> acc.embeddings,
              metadata |-> acc.metadata,
              index |-> VStack(acc.embeddings),
              printed |-> Append(acc.printed,
                                 Msg("Index built with vectors", Len(acc.embeddings)))]

\* lines 43-96: from the directory check to the built index.  abort is
\* TRUE where the function returns early.
BuildEmbeddings(deck, dir, listing, fails, variant) ==
    LET image_files == SelectSeq(listing, IsImageFile)
        found == <<Msg("Found images", Len(image_files))>>
        acc == ProcessImages([embeddings |-> <<>>, metadata |-> <<>>, printed |-> found],
                             0, image_files, fails, variant)
        none == [abort |-> TRUE, embeddings |-> <<>>, metadata |-> <<>>,
                 index |-> <<>>, printed |-> <<>>]
    IN  IF ~dir.exists
        THEN [none EXCEPT !.printed =
                <<Msg("Error: Image directory not found", ImageDirPath(deck))>>]
        ELSE IF image_files = <<>>
        THEN [none EXCEPT !.printed = <<Msg("No images found", NoPath)>>]
        ELSE IF acc.embeddings = <<>>
        THEN [none EXCEPT !.printed =
                Append(acc.printed, Msg("No embeddings generated", NoPath))]
        ELSE [abort |-> FALSE,
              embeddings |-> acc.embeddings,
              metadata |-> acc.metadata,
              index |-> VStack(acc.embeddings),
              printed |-> Append(acc.printed,
                                 Msg("Index built with vectors", Len(acc.embeddings)))]

-----------------------------------------------------------------------------
(* test_index: search and report *)

\* k = 5 # Top 5 results
K == 5

\* the score faiss reports with the position -1 of a missing result
PadScore == 0 - (UnitLength * UnitLength + 1)

RECURSIVE SearchOrdersAscending(_, _, _)
\* the order of a search by ascending inner product
SearchOrdersAscending(rows, q, S) ==
    IF S = {} THEN {<<>>}
    ELSE LET worst == {p \in S : \A o \in S : Dot(q, rows[o + 1]) >= Dot(q, rows[p + 1])}
         IN  UNION {{<<p>> \o rest : rest \in SearchOrdersAscending(rows, q, S \ {p})}
                    : p \in worst}

RECURSIVE SearchOrders(_, _, _)
\* the positions in S by descending inner product with q; positions of
\* equal score in any order
SearchOrders(rows, q, S) ==
    IF S = {} THEN {<<>>}
    ELSE LET best == {p \in S : \A o \in S : Dot(q, rows[o + 1]) <= Dot(q, rows[p + 1])}
         IN  UNION {{<<p>> \o rest : rest \in SearchOrders(rows, q, S \ {p})} : p \in best}

\* D, I = index.search(query_vector, k) on an IndexFlatIP: the k best
\* positions and their scores; with fewer than k vectors the result is
\* filled with position -1
Search(rows, q, k) ==
    { [I |-> [i \in 1..k |-> IF i <= Len(o) THEN o[i] ELSE -1],
       D |-> [i \in 1..k |-> IF i <= Len(o) THEN Dot(q, rows[o[i] + 1]) ELSE PadScore]]
      : o \in SearchOrders(rows, q, 0..(Len(rows) - 1)) }

RankLine(i, idx, score, pos, card_info) ==
    [text |-> "Rank", rank |-> i + 1, idx |-> idx, score |-> score, pos |-> pos,
     card_name |-> card_info.card_name, filename |-> card_info.filename]

UnknownLine(i, idx) ==
    [text |-> "Unknown Index", rank |-> i + 1, idx |-> idx]

\* one iteration of the loop of lines 69-77.  metadata[idx] is Python list
\* indexing: a negative idx counts from the end, and an idx below
\* -len(metadata) raises IndexError.
ReportResult(acc, i, idx, score, metadata) ==
    IF idx < Len(metadata)
    THEN IF idx >= 0
         THEN [acc EXCEPT !.printed =
                 Append(@, RankLine(i, idx, score, idx, metadata[idx + 1]))]
         ELSE IF idx >= 0 - Len(metadata)
         THEN [acc EXCEPT !.printed =
                 Append(@, RankLine(i, idx, score, Len(metadata) + idx,
                                    metadata[Len(metadata) + idx + 1]))]
         ELSE [acc EXCEPT !.raised = TRUE]
    ELSE [acc EXCEPT !.printed = Append(@, UnknownLine(i, idx))]

RECURSIVE ReportResultsReversed(_, _, _, _, _)
\* a report that walks the search result from its last position to its
\* first
ReportResultsReversed(acc, i, k, found, metadata) ==
    IF i >= k \/ acc.raised THEN acc
    ELSE ReportResultsReversed(
            ReportResult(acc, i, found.I[k - i], found.D[k - i], metadata),
            i + 1, k, found, metadata)

RECURSIVE ReportResults(_, _, _, _, _)
\* for i in range(k), from i on; an exception ends the loop
ReportResults(acc, i, k, found, metadata) ==
    IF i >= k \/ acc.raised THEN acc
    ELSE ReportResults(ReportResult(acc, i, found.I[i + 1], found.D[i + 1], metadata),
                       i + 1, k, found, metadata)

-----------------------------------------------------------------------------
(* rename.py: names, patterns and the file tree *)

\* EXTENSION_LANGS
ExtensionLangs ==
    (<<".", "p", "y">> :> <<"p", "y", "t", "h", "o", "n">>)
    @@ (<<".", "t", "s">> :> <<"t", "y", "p", "e", "s", "c", "r", "i", "p", "t">>)
    @@ (<<".", "t", "s", "x">> :> <<"t", "y", "p", "e", "s", "c", "r", "i", "p", "t">>)
    @@ (<<".", "j", "s">> :> <<"j", "a", "v", "a", "s", "c", "r", "i", "p", "t">>)
    @@ (<<".", "j", "s", "x">> :> <<"j", "a", "v", "a", "s", "c", "r", "i", "p", "t">>)
    @@ (<<".", "c", "j", "s">> :> <<"j", "a", "v", "a", "s", "c", "r", "i", "p", "t">>)
    @@ (<<".", "j", "s", "o", "n">> :> <<"j", "s", "o", "n">>)
    @@ (<<".", "h", "t", "m", "l">> :> <<"h", "t", "m", "l">>)
    @@ (<<".", "c", "s", "s">> :> <<"c", "s", "s">>)
    @@ (<<".", "s", "h">> :> <<"b", "a", "s", "h">>)
    @@ (<<".", "t", "o", "m", "l">> :> <<"t", "o", "m", "l">>)
    @@ (<<".", "s", "q", "l">> :> <<"s", "q", "l">>)
    @@ (<<".", "l", "o", "g">> :> <<"t", "e", "x", "t">>)

UpperLetters ==
    <<"A", "B", "C", "D", "E", "F", "G", "H", "I", "J", "K", "L", "M",
      "N", "O", "P", "Q", "R", "S", "T", "U", "V", "W", "X", "Y", "Z">>

LowerLetters ==
    <<"a", "b", "c", "d", "e", "f", "g", "h", "i", "j", "k", "l", "m",
      "n", "o", "p", "q", "r", "s", "t", "u", "v", "w", "x", "y", "z">>

\* str.lower()
Lower(s) ==
    [i \in 1..Len(s) |->
        IF \E n \in 1..Len(UpperLetters) : UpperLetters[n] = s[i]
        THEN LowerLetters[CHOOSE n \in 1..Len(UpperLetters) : UpperLetters[n] = s[i]]
        ELSE s[i]]

\* os.path.splitext(filename): the extension starts at the last dot; the
\* dots a name begins with are part of the root
SplitExt(filename) ==
    LET dots == {i \in 1..Len(filename) : filename[i] = "."}
        last == CHOOSE i \in dots : \A j \in dots : j <= i
    IN  IF dots = {} \/ \A j \in 1..(last - 1) : filename[j] = "."
        THEN [root |-> filename, ext |-> <<>>]
        ELSE [root |-> SubSeq(filename, 1, last - 1),
              ext |-> SubSeq(filename, last, Len(filename))]

RECURSIVE FnMatch(_, _)
\* fnmatch.fnmatch(name, pattern) for patterns of characters, * and ?
FnMatch(name, pattern) ==
    IF pattern = <<>> THEN name = <<>>
    ELSE IF Head(pattern) = "*"
    THEN FnMatch(name, Tail(pattern)) \/ (name # <<>> /\ FnMatch(Tail(name), pattern))
    ELSE /\ name # <<>>
         /\ Head(pattern) = "?" \/ Head(pattern) = Head(name)
         /\ FnMatch(Tail(name), Tail(pattern))

RECURSIVE PathString(_)
\* the absolute path as a str
PathString(path) ==
    IF path = <<>> THEN <<>>
    ELSE <<"/">> \o Head(path) \o PathString(Tail(path))

\* should_ignore(path, ignore_patterns)
ShouldIgnore(path, ignore_patterns) ==
    \E n \in 1..Len(ignore_patterns) :
        \/ FnMatch(PathString(path), ignore_patterns[n])
        \/ FnMatch(path[Len(path)], ignore_patterns[n])

Whitespace == {" ", "\t", "\r", "\n"}

RECURSIVE Strip(_)
\* str.strip()
Strip(s) ==
    IF s = <<>> THEN s
    ELSE IF Head(s) \in Whitespace THEN Strip(Tail(s))
    ELSE IF s[Len(s)] \in Whitespace THEN Strip(SubSeq(s, 1, Len(s) - 1))
    ELSE s

\* a node of the file tree: a directory with its entries in listing order,
\* a regular file, or nothing.  The content of a file is its text split at
\* "\n"; utf8: the bytes decode as UTF-8; readable: the file can be opened
\* for reading
Node(kind, entries, content, utf8, readable) ==
    [kind |-> kind, entries |-> entries, content |-> content,
     utf8 |-> utf8, readable |-> readable]

Missing == Node("none", <<>>, <<>>, TRUE, TRUE)

DirNode(entries) == Node("dir", entries, <<>>, TRUE, TRUE)

FileNode(content, utf8, readable) == Node("file", <<>>, content, utf8, readable)

Entry(name, node) == [name |-> name, node |-> node]

EntryAt(node, name) == {i \in 1..Len(node.entries) : node.entries[i].name = name}

RECURSIVE Get(_, _)
\* the node at path below node
Get(node, path) ==
    IF path = <<>> THEN node
    ELSE IF node.kind # "dir" \/ EntryAt(node, Head(path)) = {} THEN Missing
    ELSE Get(node.entries[CHOOSE i \in EntryAt(node, Head(path)) : TRUE].node, Tail(path))

\* os.path.exists, os.path.isdir
Exists(t, path) == Get(t, path).kind # "none"

IsDir(t, path) == Get(t, path).kind = "dir"

RECURSIVE Put(_, _, _)
\* the tree with new at path; a new name is listed last and the missing
\* directories on the way are created
Put(node, path, new) ==
    IF path = <<>> THEN new
    ELSE LET dir == IF node.kind = "dir" THEN node ELSE DirNode(<<>>)
             hit == EntryAt(dir, Head(path))
         IN  IF hit = {}
             THEN DirNode(Append(dir.entries,
                                 Entry(Head(path), Put(Missing, Tail(path), new))))
             ELSE DirNode([i \in 1..Len(dir.entries) |->
                            IF i \in hit
                            THEN Entry(Head(path),
                                       Put(dir.entries[i].node, Tail(path), new))
                            ELSE dir.entries[i]])

RECURSIVE Remove(_, _)
\* the tree without the node at path and everything below it
Remove(node, path) ==
    IF node.kind # "dir" \/ path = <<>> THEN node
    ELSE IF Len(path) = 1
    THEN LET Keep(e) == e.name # path[1]
         IN  DirNode(SelectSeq(node.entries, Keep))
    ELSE DirNode([i \in 1..Len(node.entries) |->
                    IF node.entries[i].name = Head(path)
                    THEN Entry(Head(path), Remove(node.entries[i].node, Tail(path)))
                    ELSE node.entries[i]])

RECURSIVE CopyOf(_)
\* shutil.copytree of a directory node: every readable file is copied; a
\* file that cannot be read is left out and makes the copy fail at its end
CopyOf(node) ==
    IF node.kind # "dir" THEN [node |-> node, failed |-> ~node.readable]
    ELSE LET Copied(e) == e.node.kind = "dir" \/ e.node.readable
             kept == SelectSeq(node.entries, Copied)
         IN  [node |-> DirNode([i \in 1..Len(kept) |->
                                  Entry(kept[i].name, CopyOf(kept[i].node).node)]),
              failed |-> \E i \in 1..Len(node.entries) :
                            CopyOf(node.entries[i].node).failed]

-----------------------------------------------------------------------------
(* rename.py: rename_and_modify_files_to_md and the command line *)

GitignoreName == <<".", "g", "i", "t", "i", "g", "n", "o", "r", "e">>

MdExt == <<".", "m", "d">>

RenamedSuffix == <<"_", "r", "e", "n", "a", "m", "e", "d">>

\* the character U+0060, which a TLA+ string cannot hold
Backtick == "U+0060"

Fence == <<Backtick, Backtick, Backtick>>

\* the text open(path, 'r') returns: a carriage return before a line end
\* is dropped.  The files of the model hold carriage returns only there.
UniversalNewlines(content) ==
    [i \in 1..Len(content) |->
        IF i < Len(content) /\ content[i] # <<>> /\ content[i][Len(content[i])] = "\r"
        THEN SubSeq(content[i], 1, Len(content[i]) - 1)
        ELSE content[i]]

\* line 127: three U+0060, the language, the content on lines of its own,
\* three U+0060
Wrap(language, content) == <<Fence \o language>> \o content \o <<Fence>>

\* parse_gitignore: the stripped lines that are neither empty nor comments;
\* no pattern when the file does not exist
ParseGitignore(node) ==
    LET text == UniversalNewlines(node.content)
        lines == [i \in 1..Len(text) |-> Strip(text[i])]
        IsPattern(l) == l # <<>> /\ Head(l) # "#"
    IN  IF node.kind # "file" THEN <<>> ELSE SelectSeq(lines, IsPattern)

\* a loop body that lacks the test of line 100: os.rename replaces an
\* existing <stem>.md
ProcessFileNoExistsCheck(acc, root, filename, ignore_patterns, dry_run) ==
    LET file_ext == Lower(SplitExt(filename).ext)
        file_path == Append(root, filename)
        new_path == Append(root, SplitExt(filename).root \o MdExt)
        node == Get(acc.tree, file_path)
        renamed == Put(Remove(Remove(acc.tree, new_path), file_path), new_path, node)
    IN  IF ShouldIgnore(file_path, ignore_patterns)
        THEN [acc EXCEPT !.printed = Append(@, Msg("Ignoring", file_path))]
        ELSE IF file_ext \notin DOMAIN ExtensionLangs THEN acc
        ELSE IF dry_run
        THEN [acc EXCEPT !.printed =
                Append(@, Msg("[Dry Run] Would rename", <<file_path, new_path>>))]
        ELSE [tree |-> Put(renamed, new_path,
                           FileNode(Wrap(ExtensionLangs[file_ext],
                                         UniversalNewlines(node.content)), TRUE, TRUE)),
              printed |-> acc.printed
                          \o <<Msg("Renamed", <<file_path, new_path>>),
                               Msg("Modified contents", new_path)>>,
              raised |-> FALSE]

\* lines 84-142: the body of the loop over the file names of one directory.
\* raised: an exception that is not an OSError leaves the function
\* (UnicodeDecodeError of file.read, line 124)
ProcessFile(acc, root, filename, ignore_patterns, dry_run) ==
    LET file_ext == Lower(SplitExt(filename).ext)
        file_path == Append(root, filename)
        new_path == Append(root, SplitExt(filename).root \o MdExt)
        node == Get(acc.tree, file_path)
        renamed == Put(Remove(acc.tree, file_path), new_path, node)
    IN  IF ShouldIgnore(file_path, ignore_patterns)
        THEN [acc EXCEPT !.printed = Append(@, Msg("Ignoring", file_path))]
        ELSE IF file_ext \notin DOMAIN ExtensionLangs THEN acc
        ELSE IF Exists(acc.tree, new_path)
        THEN [acc EXCEPT !.printed = Append(@, Msg("Skipping", file_path))]
        ELSE IF dry_run
        THEN [acc EXCEPT !.printed =
                Append(@, Msg("[Dry Run] Would rename", <<file_path, new_path>>))]
        ELSE IF node.kind # "file" \/ ~node.readable
        THEN [tree |-> renamed,
              printed |-> acc.printed
                          \o <<Msg("Renamed", <<file_path, new_path>>),
                               Msg("Error processing", file_path)>>,
              raised |-> FALSE]
        ELSE IF ~node.utf8
        THEN [tree |-> renamed,
              printed |-> Append(acc.printed, Msg("Renamed", <<file_path, new_path>>)),
              raised |-> TRUE]
        ELSE [tree |-> Put(renamed, new_path,
                           FileNode(Wrap(ExtensionLangs[file_ext],
                                         UniversalNewlines(node.content)), TRUE, TRUE)),
              printed |-> acc.printed
                          \o <<Msg("Renamed", <<file_path, new_path>>),
                               Msg("Modified contents", new_path)>>,
              raised |-> FALSE]

RECURSIVE ProcessFiles(_, _, _, _, _, _)
\* for filename in files, from the n-th name on
ProcessFiles(acc, root, files, n, ignore_patterns, dry_run) ==
    IF n > Len(files) \/ acc.raised THEN acc
    ELSE ProcessFiles(ProcessFile(acc, root, files[n], ignore_patterns, dry_run),
                      root, files, n + 1, ignore_patterns, dry_run)

\* the names of the entries of a directory node whose kind is in kinds
Names(node, kinds) ==
    LET Wanted(e) == e.node.kind \in kinds
        es == SelectSeq(node.entries, Wanted)
    IN  [i \in 1..Len(es) |-> es[i].name]

RECURSIVE Walk(_, _, _, _, _)
RECURSIVE WalkDirs(_, _, _, _, _)
\* lines 66-83: one (root, dirs, files) of os.walk, or of the one-element
\* walker of os.listdir, whose files are all the names of the directory
Walk(acc, root, ignore_patterns, recursive, dry_run) ==
    LET node == Get(acc.tree, root)
        files == IF recursive THEN Names(node, {"file"}) ELSE Names(node, {"file", "dir"})
        Kept(d) == ~ShouldIgnore(Append(root, d), ignore_patterns)
        dirs == SelectSeq(Names(node, {"dir"}), Kept)
        after == ProcessFiles(acc, root, files, 1, ignore_patterns, dry_run)
    IN  IF recursive
        THEN WalkDirs(after, [i \in 1..Len(dirs) |-> Append(root, dirs[i])],
                      ignore_patterns, recursive, dry_run)
        ELSE after

\* os.walk goes down into the directories that were kept
WalkDirs(acc, roots, ignore_patterns, recursive, dry_run) ==
    IF roots = <<>> \/ acc.raised THEN acc
    ELSE WalkDirs(Walk(acc, Head(roots), ignore_patterns, recursive, dry_run),
                  Tail(roots), ignore_patterns, recursive, dry_run)

\* rename_and_modify_files_to_md(directory, recursive, dry_run)
RenameAndModifyFilesToMd(t, directory, recursive, dry_run) ==
    IF ~IsDir(t, directory)
    THEN [tree |-> t,
          printed |-> <<Msg("Error: not a valid directory", directory)>>,
          raised |-> FALSE]
    ELSE Walk([tree |-> t, printed |-> <<>>, raised |-> FALSE], directory,
              ParseGitignore(Get(t, Append(directory, GitignoreName))),
              recursive, dry_run)

\* create_directory_copy(original_dir, output_dir).  copy_dir is NoPath
\* where the function returns None; raised: shutil.rmtree of a path that
\* is no directory raises outside the try statement
CreateDirectoryCopy(t, original_dir, output_dir) ==
    LET copy_dir == IF output_dir # NoPath
                    THEN output_dir
                    ELSE Append(SubSeq(original_dir, 1, Len(original_dir) - 1),
                                original_dir[Len(original_dir)] \o RenamedSuffix)
        exists == Exists(t, copy_dir)
        removed == IF exists THEN Remove(t, copy_dir) ELSE t
        head == IF exists
                THEN <<Msg("Copy directory already exists. Removing it first", copy_dir)>>
                ELSE <<>>
        copy == CopyOf(Get(removed, original_dir))
        failure == Msg("Error copying directory", <<original_dir, copy_dir>>)
    IN  IF exists /\ ~IsDir(t, copy_dir)
        THEN [tree |-> t, printed |-> head, copy_dir |-> NoPath, raised |-> TRUE]
        ELSE IF ~IsDir(removed, original_dir)
        THEN [tree |-> removed, printed |-> Append(head, failure),
              copy_dir |-> NoPath, raised |-> FALSE]
        ELSE IF copy.failed
        THEN [tree |-> Put(removed, copy_dir, copy.node),
              printed |-> Append(head, failure),
              copy_dir |-> NoPath, raised |-> FALSE]
        ELSE [tree |-> Put(removed, copy_dir, copy.node),
              printed |-> Append(head, Msg("Created a copy", <<original_dir, copy_dir>>)),
              copy_dir |-> copy_dir, raised |-> FALSE]

\* the repository that gh repo clone fetches
RepoNode ==
    DirNode(<<Entry(<<"m", ".", "p", "y">>, FileNode(<<<<"m">>, <<>>>>, TRUE, TRUE))>>)

\* process_input(input_path_or_url, is_url, output_dir); temp_dir is the
\* directory of tempfile.mkdtemp(), cloned the outcome of clone_github_repo
ProcessInput(t, input_path_or_url, is_url, cloned, temp_dir, output_dir) ==
    IF is_url
    THEN LET made == Put(t, temp_dir, DirNode(<<>>))
             c == CreateDirectoryCopy(Put(made, temp_dir, RepoNode), temp_dir, output_dir)
         IN  IF cloned
             THEN [c EXCEPT !.printed =
                     <<Msg("Cloning repository", input_path_or_url),
                       Msg("Successfully cloned", input_path_or_url)>> \o @]
             ELSE [tree |-> made,
                   printed |-> <<Msg("Cloning repository", input_path_or_url),
                                 Msg("Error cloning repository", input_path_or_url)>>,
                   copy_dir |-> NoPath, raised |-> FALSE]
    ELSE IF ~IsDir(t, input_path_or_url)
    THEN [tree |-> t,
          printed |-> <<Msg("Error: not a valid directory", input_path_or_url)>>,
          copy_dir |-> NoPath, raised |-> FALSE]
    ELSE CreateDirectoryCopy(t, input_path_or_url, output_dir)

-----------------------------------------------------------------------------
(* scripts/assets/splice_card_photos.py *)

\* the code points of the characters of the photograph names
Ord(c) ==
    CASE c = "." -> 46 [] c = "0" -> 48 [] c = "1" -> 49 [] c = "2" -> 50
      [] c = "3" -> 51 [] c = "G" -> 71 [] c = "I" -> 73 [] c = "J" -> 74
      [] c = "M" -> 77 [] c = "P" -> 80 [] c = "_" -> 95 [] c = "g" -> 103
      [] c = "j" -> 106 [] c = "p" -> 112

RECURSIVE StrLess(_, _)
\* the order of str, and of the Path objects that sorted compares
StrLess(a, b) ==
    IF b = <<>> THEN FALSE
    ELSE IF a = <<>> THEN TRUE
    ELSE IF Head(a) # Head(b) THEN Ord(Head(a)) < Ord(Head(b))
    ELSE StrLess(Tail(a), Tail(b))

RECURSIVE SortedNames(_)
\* sorted(names)
SortedNames(names) ==
    IF names = {} THEN <<>>
    ELSE LET least == CHOOSE n \in names : \A o \in names \ {n} : StrLess(n, o)
         IN  <<least>> \o SortedNames(names \ {least})

RECURSIVE RemoveAll(_, _)
\* str.replace(old, '')
RemoveAll(s, old) ==
    IF Len(s) < Len(old) THEN s
    ELSE IF SubSeq(s, 1, Len(old)) = old
    THEN RemoveAll(SubSeq(s, Len(old) + 1, Len(s)), old)
    ELSE <<Head(s)>> \o RemoveAll(Tail(s), old)

\* INPUT_DIR.glob("IMG_*.JPG")
PhotoPattern == <<"I", "M", "G", "_", "*", ".", "J", "P", "G">>

\* f"thoth_{photo_path.stem.replace('IMG_', '')}"
OutputPrefix(name) ==
    <<"t", "h", "o", "t", "h", "_">>
    \o RemoveAll(SplitExt(name).root, <<"I", "M", "G", "_">>)

\* f"{output_prefix}_card_{i+1:02d}.jpg", i the 0-based position of the box
OutputName(output_prefix, i) ==
    output_prefix \o <<"_", "c", "a", "r", "d", "_">>
    \o <<ToString((i + 1) \div 10), ToString((i + 1) % 10)>>
    \o <<".", "j", "p", "g">>

\* a photograph that cv2.imread decodes: its shape and the bounding
\* rectangles of its contours, in the order cv2.findContours returns them
Image(rows, cols, contours) ==
    [readable |-> TRUE, rows |-> rows, cols |-> cols, contours |-> contours]

\* a file for which cv2.imread returns None
Unreadable == [readable |-> FALSE, rows |-> 0, cols |-> 0, contours |-> <<>>]

Box(x, y, w, h) == [x |-> x, y |-> y, w |-> w, h |-> h]

\* lines 50-52: between 5% and 95% of the image, height 1.3 to 2.2 times
\* the width
IsCard(img, box) ==
    /\ box.w * box.h * 100 > img.rows * img.cols * 5
    /\ box.w * box.h * 100 < img.rows * img.cols * 95
    /\ box.w > 0
    /\ 13 * box.w < 10 * box.h
    /\ 10 * box.h < 22 * box.w

RECURSIVE SortByX(_)
\* list.sort(key=lambda box: box[0]): stable
SortByX(boxes) ==
    IF boxes = <<>> THEN <<>>
    ELSE LET least == CHOOSE i \in 1..Len(boxes) :
                        \A j \in 1..Len(boxes) :
                            \/ boxes[i].x < boxes[j].x
                            \/ boxes[i].x = boxes[j].x /\ i <= j
             rest == [j \in 1..(Len(boxes) - 1) |->
                        IF j < least THEN boxes[j] ELSE boxes[j + 1]]
         IN  <<boxes[least]>> \o SortByX(rest)

\* find_cards_in_image: the value returned, a list for a file that cannot
\* be read and a pair (img, card_boxes) otherwise
FindCardsInImage(img) ==
    LET Card(box) == IsCard(img, box)
    IN  IF ~img.readable
        THEN [pair |-> FALSE, card_boxes |-> <<>>]
        ELSE [pair |-> TRUE, card_boxes |-> SortByX(SelectSeq(img.contours, Card))]

Min(a, b) == IF a < b THEN a ELSE b

Max(a, b) == IF a > b THEN a ELSE b

\* lines 73-80: the region of the box with a padding of 5, inside the image
Region(img, box) ==
    [x1 |-> Max(0, box.x - 5), y1 |-> Max(0, box.y - 5),
     x2 |-> Min(img.cols, box.x + box.w + 5), y2 |-> Min(img.rows, box.y + box.h + 5)]

\* extract_cards(image_path, output_prefix) over the files of OUTPUT_DIR.
\* raised: line 63 unpacks the returned value into two names, which raises
\* ValueError for the empty list
ExtractCards(name, img, output_prefix, files) ==
    LET found == FindCardsInImage(img)
        boxes == found.card_boxes
        saved == [i \in 1..Len(boxes) |->
                    [name |-> OutputName(output_prefix, i - 1),
                     region |-> Region(img, boxes[i])]]
        Replaced(f) == \A i \in 1..Len(saved) : saved[i].name # f.name
    IN  IF ~found.pair
        THEN [raised |-> TRUE, files |-> files, extracted |-> <<>>,
              printed |-> <<Msg("Could not read", name)>>]
        ELSE IF boxes = <<>>
        THEN [raised |-> FALSE, files |-> files, extracted |-> <<>>,
              printed |-> <<Msg("No cards detected in", name)>>]
        ELSE [raised |-> FALSE,
              files |-> {f \in files : Replaced(f)} \cup {saved[i] : i \in 1..Len(saved)},
              extracted |-> [i \in 1..Len(saved) |-> saved[i].name],
              printed |-> [i \in 1..Len(saved) |-> Msg("Extracted card", <<i, saved[i].name>>)]]

RECURSIVE ProcessPhotos(_, _, _)
\* lines 110-117: the loop of main from the n-th photograph on
ProcessPhotos(acc, photo_files, n) ==
    IF n > Len(photo_files) \/ acc.raised THEN acc
    ELSE LET name == photo_files[n]
             img == (CHOOSE p \in acc.photos : p.name = name).img
             e == ExtractCards(name, img, OutputPrefix(name), acc.files)
         IN  ProcessPhotos([acc EXCEPT !.raised = e.raised,
                                       !.files = e.files,
                                       !.total_cards = @ + Len(e.extracted),
                                       !.printed = @ \o <<Msg("Processing", name)>>
                                                     \o e.printed],
                           photo_files, n + 1)

-----------------------------------------------------------------------------
(* State *)

Runners == {1, 2}

\* the runner of the sequential specifications
SeqRunners == {1}

NoCmd == [name |-> "none", deck |-> ""]

LocIdle == [export_json |-> NoPath, embeddings |-> <<>>, metadata |-> <<>>,
            index |-> <<>>, full_export |-> EmptyDocument]

\* the pair an earlier build of the marseille deck (base model) left
OldRows == [n \in 1..5 |-> ImageEmbeddings[BaseModel][OldFile(n)]]

OldMetadata ==
    [n \in 1..5 |-> [id |-> n - 1, filename |-> OldFile(n),
                     card_name |-> CardName(OldFile(n))]]

OldExport ==
    Document("object",
        JsonValue("object",
            [d \in {"marseille"} |->
                [cards |-> CardsData(OldMetadata, [n \in 1..5 |-> <<OldRows[n]>>], 5)]]))

\* contents the export file may have before the first command
InitialExports ==
    { NoFile(EmptyDocument),
      File(Document("garbage", NoDeckStyles)),
      File(Document("array", NoDeckStyles)),
      File(Document("string", NoDeckStyles)),
      File(Document("number", NoDeckStyles)),
      File(Document("null", NoDeckStyles)),
      File(EmptyDocument),
      File(Document("object", JsonValue("array", EmptyMap))),
      File(Document("object", JsonValue("null", EmptyMap))),
      File(OldExport) }

Dir(listing) == [exists |-> TRUE, listing |-> listing]

NoDir == [exists |-> FALSE, listing |-> <<>>]

\* the initial file system: the rws and custom image directories in the
\* listing orders given, a thoth directory without images but with the
\* adapter an earlier training saved, no marseille directory but the
\* marseille index an earlier build left, and the export file with the
\* content given
InitFs(rwsListing, customListing, export) ==
    /\ rawDir = [d \in Decks |->
                    CASE d = "rws" -> Dir(rwsListing)
                      [] d = "custom" -> Dir(customListing)
                      [] d = "thoth" -> Dir(<<FileNotes>>)
                      [] OTHER -> NoDir]
    /\ adapterDir = [d \in Decks |-> IF d = "thoth" THEN 1 ELSE 0]
    /\ indexFile = [d \in Decks |->
                    IF d = "marseille" THEN File(OldRows) ELSE NoFile(<<>>)]
    /\ metaFile = [d \in Decks |->
                    IF d = "marseille" THEN File(OldMetadata) ELSE NoFile(<<>>)]
    /\ exportFile = [p \in ExportPaths |->
                        IF p = ExportPathDoc THEN export ELSE NoFile(EmptyDocument)]
    /\ tree = DirNode(<<>>)
    /\ inputDir = {}
    /\ outputDir = {}

InitRunners ==
    /\ pc = [r \in Runners |-> "idle"]
    /\ loc = [r \in Runners |-> LocIdle]
    /\ cmd = [r \in Runners |-> NoCmd]
    /\ stdout = [r \in Runners |-> <<>>]
    /\ exit = [r \in Runners |-> 0]
    /\ runs = 0

-----------------------------------------------------------------------------
(* Commands *)

\* the command starts: a fresh process with empty output
Start(r, c, lines) ==
    /\ pc[r] = "idle"
    /\ runs' = runs + 1
    /\ cmd' = [cmd EXCEPT ![r] = c]
    /\ stdout' = [stdout EXCEPT ![r] = lines]

\* the function returns or an exception ends the process
Finish(r, status) ==
    /\ pc' = [pc EXCEPT ![r] = "idle"]
    /\ loc' = [loc EXCEPT ![r] = LocIdle]
    /\ exit' = [exit EXCEPT ![r] = status]

Emit(r, lines) == stdout' = [stdout EXCEPT ![r] = @ \o lines]

\* build_index lines 23-96: load the model, list the directory, embed
BuildStart(r, deck, adapter_path, export_json, fails) ==
    LET variant == BuildVariant(adapter_path)
        b == BuildEmbeddings(deck, rawDir[deck], ListDir(rawDir[deck]), fails, variant)
    IN  /\ Start(r, [name |-> "build", deck |-> deck],
                 <<Msg("Building vector index for deck", deck),
                   VariantMsg(variant, adapter_path)>> \o b.printed)
        /\ IF b.abort
           THEN Finish(r, 0)
           ELSE /\ pc' = [pc EXCEPT ![r] = "write_index"]
                /\ loc' = [loc EXCEPT ![r] =
                            [LocIdle EXCEPT !.export_json = export_json,
                                            !.embeddings = b.embeddings,
                                            !.metadata = b.metadata,
                                            !.index = b.index]]
                /\ exit' = [exit EXCEPT ![r] = -1]
        /\ UNCHANGED fsVars

\* an index write that waits while another build of the same deck is
\* between its two writes
BuildWriteIndexLocked(r) ==
    /\ pc[r] = "write_index"
    /\ \A o \in Runners \ {r} : ~(cmd[o].deck = cmd[r].deck /\ pc[o] = "write_meta")
    /\ indexFile' = [indexFile EXCEPT ![cmd[r].deck] = File(loc[r].index)]
    /\ pc' = [pc EXCEPT ![r] = "write_meta"]
    /\ UNCHANGED <<tree, inputDir, outputDir, rawDir, adapterDir, metaFile, exportFile, loc, cmd, stdout, exit, runs>>

\* lines 99-105: os.makedirs(output_dir); faiss.write_index(index, index_path)
BuildWriteIndex(r) ==
    /\ pc[r] = "write_index"
    /\ indexFile' = [indexFile EXCEPT ![cmd[r].deck] = File(loc[r].index)]
    /\ pc' = [pc EXCEPT ![r] = "write_meta"]
    /\ UNCHANGED <<tree, inputDir, outputDir, rawDir, adapterDir, metaFile, exportFile, loc, cmd, stdout, exit, runs>>

\* a metadata write that is lost: the build goes on as if the file had
\* been written
BuildWriteMetaSkipped(r) ==
    /\ pc[r] = "write_meta"
    /\ Emit(r, <<Msg("Saved index to", IndexPath(cmd[r].deck)),
                 Msg("Saved metadata to", MetadataPath(cmd[r].deck))>>)
    /\ IF loc[r].export_json = NoPath
       THEN Finish(r, 0)
       ELSE /\ pc' = [pc EXCEPT ![r] = "export_read"]
            /\ UNCHANGED <<loc, exit>>
    /\ UNCHANGED <<tree, inputDir, outputDir, rawDir, adapterDir, indexFile, metaFile, exportFile, cmd, runs>>

\* lines 106-113: json.dump(metadata, f); without --export_json the
\* function returns
BuildWriteMeta(r) ==
    /\ pc[r] = "write_meta"
    /\ metaFile' = [metaFile EXCEPT ![cmd[r].deck] = File(loc[r].metadata)]
    /\ Emit(r, <<Msg("Saved index to", IndexPath(cmd[r].deck)),
                 Msg("Saved metadata to", MetadataPath(cmd[r].deck))>>)
    /\ IF loc[r].export_json = NoPath
       THEN Finish(r, 0)
       ELSE /\ pc' = [pc EXCEPT ![r] = "export_read"]
            /\ UNCHANGED <<loc, exit>>
    /\ UNCHANGED <<tree, inputDir, outputDir, rawDir, adapterDir, indexFile, exportFile, cmd, runs>>

\* an export that takes a lock on the document: the read waits while
\* another build has read the same document and not yet written it
BuildExportReadLocked(r) ==
    /\ pc[r] = "export_read"
    /\ \A o \in Runners \ {r} :
         ~(pc[o] = "export_write" /\ loc[o].export_json = loc[r].export_json)
    /\ loc' = [loc EXCEPT ![r].full_export = ReadExport(exportFile[loc[r].export_json])]
    /\ Emit(r, <<Msg("Exporting embeddings to JSON for web app", loc[r].export_json)>>)
    /\ pc' = [pc EXCEPT ![r] = "export_write"]
    /\ UNCHANGED <<fsVars, cmd, exit, runs>>

\* lines 114-124: read the existing export document
BuildExportRead(r) ==
    /\ pc[r] = "export_read"
    /\ loc' = [loc EXCEPT ![r].full_export = ReadExport(exportFile[loc[r].export_json])]
    /\ Emit(r, <<Msg("Exporting embeddings to JSON for web app", loc[r].export_json)>>)
    /\ pc' = [pc EXCEPT ![r] = "export_write"]
    /\ UNCHANGED <<fsVars, cmd, exit, runs>>

\* lines 126-154: merge this deck's cards and write the document back.
\* os.makedirs("") raises FileNotFoundError for a path with no directory.
BuildExportWrite(r) ==
    LET cards_data == CardsData(loc[r].metadata, loc[r].embeddings, Len(loc[r].metadata))
        m == MergeExport(loc[r].full_export, cmd[r].deck, cards_data)
    IN  /\ pc[r] = "export_write"
        /\ IF m.raised
           THEN /\ Emit(r, <<Msg("Traceback", "TypeError")>>)
                /\ Finish(r, 1)
                /\ UNCHANGED exportFile
           ELSE IF DirName(loc[r].export_json) = <<>>
           THEN /\ Emit(r, <<Msg("Traceback", "FileNotFoundError")>>)
                /\ Finish(r, 1)
                /\ UNCHANGED exportFile
           ELSE /\ exportFile' = [exportFile EXCEPT ![loc[r].export_json] = File(m.doc)]
                /\ Emit(r, <<Msg("Updated export", AppDeckId(cmd[r].deck))>>)
                /\ Finish(r, 0)
        /\ UNCHANGED <<tree, inputDir, outputDir, rawDir, adapterDir, indexFile, metaFile, cmd, runs>>

\* a build whose failed index write is caught and that goes on with the
\* metadata write
BuildWriteFailsSwallowed(r) ==
    /\ pc[r] = "write_index"
    /\ Emit(r, <<Msg("Error writing", IndexPath(cmd[r].deck))>>)
    /\ pc' = [pc EXCEPT ![r] = "write_meta"]
    /\ UNCHANGED <<fsVars, loc, cmd, exit, runs>>

\* lines 99-107: os.makedirs, faiss.write_index or open(metadata_path, 'w')
\* raises (the directory cannot be written); nothing catches the
\* exception and the process ends with a traceback
BuildWriteFails(r) ==
    /\ pc[r] \in {"write_index", "write_meta"}
    /\ Emit(r, <<Msg("Traceback", IF pc[r] = "write_index"
                                  THEN "RuntimeError" ELSE "PermissionError")>>)
    /\ Finish(r, 1)
    /\ UNCHANGED <<fsVars, cmd, runs>>

\* the process is killed between two steps of a build
Kill(r) ==
    /\ pc[r] # "idle"
    /\ Emit(r, <<Msg("Killed", NoPath)>>)
    /\ Finish(r, 137)
    /\ UNCHANGED <<fsVars, cmd, runs>>

\* test_index lines 20-77
Query(r, deck, text) ==
    LET c == [name |-> "query", deck |-> deck]
        head == <<Msg("Testing index for deck", deck)>>
        variant == QueryVariant(deck)
        query_vector == TextEmbeddings[variant][text]
        metadata == metaFile[deck].content
    IN  /\ IF ~indexFile[deck].exists \/ ~metaFile[deck].exists
           THEN /\ Start(r, c, Append(head,
                        Msg("Error: Index or metadata not found in",
                            <<"data", "indices", deck>>)))
                /\ Finish(r, 0)
           ELSE \E found \in Search(indexFile[deck].content, query_vector, K) :
                  LET acc == ReportResults([printed |-> <<>>, raised |-> FALSE],
                                           0, K, found, metadata)
                  IN  /\ Start(r, c,
                               head
                               \o <<Msg("Loaded index with vectors",
                                        Len(indexFile[deck].content)),
                                    VariantMsg(variant, AdapterPath(deck)),
                                    Msg("Query", text)>>
                               \o acc.printed
                               \o (IF acc.raised
                                   THEN <<Msg("Traceback", "IndexError")>>
                                   ELSE <<>>))
                      /\ Finish(r, IF acc.raised THEN 1 ELSE 0)
        /\ UNCHANGED fsVars

\* a trainer that lacks the return of lines 90-92: the untrained adapter is
\* saved when the dataset is empty
TrainAlwaysSaves(r, deck, decodable) ==
    LET c == [name |-> "train", deck |-> deck]
        dir == rawDir[deck]
        images == SelectSeq(ListDir(dir), IsImageFile)
        head == <<Msg("Initializing LoRA training for deck", deck)>>
                \o (IF dir.exists THEN <<>>
                    ELSE <<Msg("Warning: Dataset path does not exist",
                               ImageDirPath(deck))>>)
    IN  /\ rawDir' = [rawDir EXCEPT ![deck] = IF dir.exists THEN dir ELSE Dir(<<>>)]
        /\ IF images = <<>>
           THEN /\ Start(r, c, head \o <<Msg("Warning: No images found in",
                                             ImageDirPath(deck)),
                                         Msg("No data found. Skipping training loop.",
                                             NoPath)>>)
                /\ Finish(r, 0)
                /\ adapterDir' = [adapterDir EXCEPT ![deck] = @ + 1]
           ELSE IF ~decodable
           THEN /\ Start(r, c, head \o <<Msg("Starting training", NoPath),
                                         Msg("Traceback", "UnidentifiedImageError")>>)
                /\ Finish(r, 1)
                /\ UNCHANGED adapterDir
           ELSE /\ Start(r, c, head \o <<Msg("Starting training", NoPath),
                                         Msg("LoRA adapters saved to",
                                             AdapterPath(deck))>>)
                /\ Finish(r, 0)
                /\ adapterDir' = [adapterDir EXCEPT ![deck] = @ + 1]
        /\ UNCHANGED <<tree, inputDir, outputDir, indexFile, metaFile, exportFile>>

\* train lines 57-134; decodable: every image of the dataset can be opened
\* by TarotCardDataset.__getitem__
Train(r, deck, decodable) ==
    LET c == [name |-> "train", deck |-> deck]
        dir == rawDir[deck]
        images == SelectSeq(ListDir(dir), IsImageFile)
        head == <<Msg("Initializing LoRA training for deck", deck)>>
                \o (IF dir.exists THEN <<>>
                    ELSE <<Msg("Warning: Dataset path does not exist",
                               ImageDirPath(deck))>>)
    IN  /\ rawDir' = [rawDir EXCEPT ![deck] = IF dir.exists THEN dir ELSE Dir(<<>>)]
        /\ IF images = <<>>
           THEN /\ Start(r, c, head \o <<Msg("Warning: No images found in",
                                             ImageDirPath(deck)),
                                         Msg("No data found. Skipping training loop.",
                                             NoPath)>>)
                /\ Finish(r, 0)
                /\ UNCHANGED adapterDir
           ELSE IF ~decodable
           THEN /\ Start(r, c, head \o <<Msg("Starting training", NoPath),
                                         Msg("Traceback", "UnidentifiedImageError")>>)
                /\ Finish(r, 1)
                /\ UNCHANGED adapterDir
           ELSE /\ Start(r, c, head \o <<Msg("Starting training", NoPath),
                                         Msg("LoRA adapters saved to",
                                             AdapterPath(deck))>>)
                /\ Finish(r, 0)
                /\ adapterDir' = [adapterDir EXCEPT ![deck] = @ + 1]
        /\ UNCHANGED <<tree, inputDir, outputDir, indexFile, metaFile, exportFile>>

\* tempfile.mkdtemp(): a new directory for each command
TempDir(n) == <<<<"t", "m", "p">>, <<"t", ToString(n)>>>>

\* python rename.py (-d directory | -u url) [-o output] [-r] [--dry-run]:
\* main and run_cli, lines 239-288.  directory is NoPath when -u is given;
\* cloned: gh repo clone succeeds
RunCli(r, directory, url, cloned, output, recursive, dry_run) ==
    LET is_url == directory = NoPath
        c == [name |-> "rename", deck |-> "",
              args |-> [directory |-> directory, url |-> url, output |-> output,
                        recursive |-> recursive, dry_run |-> dry_run]]
        p == ProcessInput(tree, IF is_url THEN url ELSE directory, is_url, cloned,
                          TempDir(runs), output)
        m == RenameAndModifyFilesToMd(p.tree, p.copy_dir, recursive, dry_run)
    IN  /\ IF p.raised
           THEN /\ tree' = p.tree
                /\ Start(r, c, Append(p.printed, Msg("Traceback", "NotADirectoryError")))
                /\ Finish(r, 1)
           ELSE IF p.copy_dir = NoPath
           THEN /\ tree' = p.tree
                /\ Start(r, c, Append(p.printed,
                                      Msg("Processing aborted due to errors.", NoPath)))
                /\ Finish(r, 1)
           ELSE /\ tree' = m.tree
                /\ Start(r, c, p.printed \o m.printed
                               \o (IF m.raised
                                   THEN <<Msg("Traceback", "UnicodeDecodeError")>>
                                   ELSE <<>>))
                /\ Finish(r, IF m.raised THEN 1 ELSE 0)
        /\ UNCHANGED <<rawDir, adapterDir, indexFile, metaFile, exportFile,
                       inputDir, outputDir>>

\* a program that calls rename_and_modify_files_to_md(directory, recursive,
\* dry_run) with the default log_callback and ends
RenameCall(r, directory, recursive, dry_run) ==
    LET c == [name |-> "rename_and_modify_files_to_md", deck |-> "",
              args |-> [directory |-> directory, recursive |-> recursive,
                        dry_run |-> dry_run]]
        m == RenameAndModifyFilesToMd(tree, directory, recursive, dry_run)
    IN  /\ tree' = m.tree
        /\ Start(r, c, m.printed \o (IF m.raised
                                     THEN <<Msg("Traceback", "UnicodeDecodeError")>>
                                     ELSE <<>>))
        /\ Finish(r, IF m.raised THEN 1 ELSE 0)
        /\ UNCHANGED <<rawDir, adapterDir, indexFile, metaFile, exportFile,
                       inputDir, outputDir>>

\* python scripts/assets/splice_card_photos.py: main, lines 96-123
SpliceMain(r) ==
    LET c == [name |-> "splice", deck |-> ""]
        matching == {p.name : p \in {q \in inputDir : FnMatch(q.name, PhotoPattern)}}
        photo_files == SortedNames(matching)
        head == <<Msg("Splicing multi-card photos into individual cards...", NoPath)>>
        done == ProcessPhotos([photos |-> inputDir, files |-> outputDir,
                               total_cards |-> 0, printed |-> head, raised |-> FALSE],
                              photo_files, 1)
    IN  /\ IF photo_files = <<>>
           THEN /\ Start(r, c, Append(head, Msg("No IMG_*.JPG files found in", NoPath)))
                /\ Finish(r, 0)
                /\ UNCHANGED outputDir
           ELSE IF done.raised
           THEN /\ Start(r, c, Append(done.printed, Msg("Traceback", "ValueError")))
                /\ Finish(r, 1)
                /\ outputDir' = done.files
           ELSE /\ Start(r, c, done.printed
                               \o <<Msg("Extracted individual cards", done.total_cards),
                                    Msg("Saved to", NoPath)>>)
                /\ Finish(r, 0)
                /\ outputDir' = done.files
        /\ UNCHANGED <<rawDir, adapterDir, indexFile, metaFile, exportFile,
                       tree, inputDir>>

-----------------------------------------------------------------------------
(* Specifications: the commands run one after another *)

\* --adapter_path: omitted, or the directory the trainer writes for the deck
AdapterArgs(deck) == {NoPath, AdapterPath(deck)}

\* the sets of images of a directory that fail in one build
FailSets(dir, max) ==
    {F \in SUBSET {f \in Range(ListDir(dir)) : IsImageFile(f)} : Cardinality(F) <= max}

\* Spec: builds without export, of every deck, in every listing order of
\* the image directories
Init ==
    /\ \E l \in Perms({File01, File02, File03}), m \in Perms({FileTheFoolU, FileTheFoolD}) :
         InitFs(l, m, NoFile(EmptyDocument))
    /\ InitRunners

Next ==
    \E r \in SeqRunners :
        \/ /\ runs < MaxRuns
           /\ \E deck \in Decks : \E fails \in FailSets(rawDir[deck], MaxFail) :
                BuildStart(r, deck, NoPath, NoPath, fails)
        \/ BuildWriteIndex(r)
        \/ BuildWriteMeta(r)
        \/ Kill(r)

Spec == Init /\ [][Next]_vars

\* SpecExport: builds with export, over every initial export document
InitExport ==
    /\ \E f \in InitialExports :
         InitFs(<<File01, File02, File03>>, <<FileTheFoolU, FileTheFoolD>>, f)
    /\ InitRunners

NextExport ==
    \E r \in SeqRunners :
        \/ /\ runs < MaxExportRuns
           /\ \E deck \in Decks, export_json \in ExportPaths :
                \E fails \in FailSets(rawDir[deck], MaxExportFail) :
                  BuildStart(r, deck, NoPath, export_json, fails)
        \/ BuildWriteIndex(r)
        \/ BuildWriteMeta(r)
        \/ BuildExportRead(r)
        \/ BuildExportWrite(r)
        \/ BuildWriteFails(r)

SpecExport == InitExport /\ [][NextExport]_vars

\* SpecQuery: training, builds and queries; the custom directory holds
\* the same picture twice
InitQuery ==
    /\ InitFs(<<File02, File01, File03>>, <<FileTheFoolU, FileFoolCopy>>,
              NoFile(EmptyDocument))
    /\ InitRunners

NextQuery ==
    \E r \in SeqRunners :
        \/ /\ runs < MaxQueryRuns
           /\ \E deck \in Decks, decodable \in BOOLEAN : Train(r, deck, decodable)
        \/ /\ runs < MaxQueryRuns
           /\ \E deck \in Decks : \E adapter_path \in AdapterArgs(deck) :
                \E fails \in FailSets(rawDir[deck], MaxQueryFail) :
                  BuildStart(r, deck, adapter_path, NoPath, fails)
        \/ BuildWriteIndex(r)
        \/ BuildWriteMeta(r)
        \/ Kill(r)
        \/ /\ runs < MaxQueryRuns
           /\ \E deck \in Decks, text \in Queries : Query(r, deck, text)

SpecQuery == InitQuery /\ [][NextQuery]_vars

\* SpecNames: builds of a directory that holds one image file, over every
\* file name of NameInputs
InitNames ==
    /\ \E name \in NameInputs :
         InitFs(<<File01, File02, File03>>, <<name>>, NoFile(EmptyDocument))
    /\ InitRunners

NextNames ==
    \E r \in SeqRunners :
        \/ /\ runs < MaxNameRuns
           /\ \E fails \in FailSets(rawDir["custom"], MaxNameFail) :
                BuildStart(r, "custom", NoPath, NoPath, fails)
        \/ BuildWriteIndex(r)
        \/ BuildWriteMeta(r)

SpecNames == InitNames /\ [][NextNames]_vars

\* SpecRace: two builder processes at a time, with and without export to
\* the same export path
RaceDecks == {"rws", "custom"}

InitRace ==
    /\ InitFs(<<File01, File02, File03>>, <<FileTheFoolU, FileTheFoolD>>,
              NoFile(EmptyDocument))
    /\ InitRunners

NextRace ==
    \E r \in Runners :
        \/ /\ runs < MaxRaceRuns
           /\ \E deck \in RaceDecks, export_json \in {NoPath, ExportPathDoc} :
                \E fails \in FailSets(rawDir[deck], MaxRaceFail) :
                  BuildStart(r, deck, NoPath, export_json, fails)
        \/ BuildWriteIndex(r)
        \/ BuildWriteMeta(r)
        \/ BuildExportRead(r)
        \/ BuildExportWrite(r)

SpecRace == InitRace /\ [][NextRace]_vars

\* SpecRename: rename.py over a working directory w that holds the input
\* directory in and, in half of the initial states, a directory in_renamed
\* left by an earlier run
NameW == <<"w">>

NameIn == <<"i", "n">>

NameSub == <<"s", "u", "b">>

PathW == <<NameW>>

PathIn == <<NameW, NameIn>>

PathSub == <<NameW, NameIn, NameSub>>

PathCopy == <<NameW, NameIn \o RenamedSuffix>>

PathOut == <<NameW, <<"o", "u", "t">>>>

PathNoDir == <<NameW, <<"n", "o">>>>

RepoUrl == "https://github.com/owner/repo"

Text(line) == FileNode(<<line, <<>>>>, TRUE, TRUE)

\* a.py and a.js share the stem a; sub holds c.ts and its own a.js
DirSameStem(first, second) ==
    DirNode(<<Entry(first, Text(<<"1">>)),
              Entry(second, Text(<<"2">>)),
              Entry(<<"n", ".", "t", "x", "t">>, Text(<<"n">>)),
              Entry(NameSub,
                    DirNode(<<Entry(<<"c", ".", "t", "s">>, Text(<<"c">>)),
                              Entry(<<"a", ".", "j", "s">>, Text(<<"3">>))>>))>>)

\* a .gitignore with a comment, an empty line and two patterns; d.md exists
DirIgnore ==
    DirNode(<<Entry(GitignoreName,
                    FileNode(<<<<"#", " ", "c">>, <<>>,
                               <<" ", "*", ".", "l", "o", "g", " ">>,
                               <<"s", "?", "b">>, <<>>>>, TRUE, TRUE)),
              Entry(<<"b", ".", "l", "o", "g">>, Text(<<"b">>)),
              Entry(<<"d", ".", "p", "y">>, Text(<<"d">>)),
              Entry(<<"d", ".", "m", "d">>, Text(<<"D">>)),
              Entry(<<"k", ".", "c", "s", "s">>, Text(<<"k">>)),
              Entry(NameSub,
                    DirNode(<<Entry(<<"c", ".", "t", "s">>, Text(<<"c">>))>>))>>)

\* e.sh has CRLF line ends, f.json is not UTF-8, g.PY has an upper-case
\* extension
DirUndecodable ==
    DirNode(<<Entry(<<"e", ".", "s", "h">>,
                    FileNode(<<<<"e", "\r">>, <<>>>>, TRUE, TRUE)),
              Entry(<<"f", ".", "j", "s", "o", "n">>,
                    FileNode(<<<<"f">>, <<>>>>, FALSE, TRUE)),
              Entry(<<"g", ".", "P", "Y">>, Text(<<"g">>))>>)

\* h.py cannot be opened by the user who runs the program
DirUnreadable ==
    DirNode(<<Entry(<<"h", ".", "p", "y">>, FileNode(<<<<"h">>, <<>>>>, TRUE, FALSE)),
              Entry(<<"g", ".", "p", "y">>, Text(<<"g">>))>>)

InputDirs ==
    {DirSameStem(<<"a", ".", "p", "y">>, <<"a", ".", "j", "s">>),
     DirSameStem(<<"a", ".", "j", "s">>, <<"a", ".", "p", "y">>),
     DirIgnore, DirUndecodable, DirUnreadable}

StaleCopy == DirNode(<<Entry(<<"o", ".", "m", "d">>, Text(<<"o">>))>>)

Root(in, stale) ==
    DirNode(<<Entry(NameW,
                    DirNode(<<Entry(NameIn, in)>>
                            \o (IF stale
                                THEN <<Entry(NameIn \o RenamedSuffix, StaleCopy)>>
                                ELSE <<>>)))>>)

InitRename ==
    /\ \E in \in InputDirs, stale \in BOOLEAN : tree = Root(in, stale)
    /\ rawDir = [d \in Decks |-> NoDir]
    /\ adapterDir = [d \in Decks |-> 0]
    /\ indexFile = [d \in Decks |-> NoFile(<<>>)]
    /\ metaFile = [d \in Decks |-> NoFile(<<>>)]
    /\ exportFile = [p \in ExportPaths |-> NoFile(EmptyDocument)]
    /\ inputDir = {}
    /\ outputDir = {}
    /\ InitRunners

NextRename ==
    \E r \in SeqRunners :
        /\ runs < MaxCliRuns
        /\ \/ \E output \in {NoPath, PathOut, PathIn, PathW},
                 recursive \in BOOLEAN, dry_run \in BOOLEAN :
                RunCli(r, PathIn, NoPath, TRUE, output, recursive, dry_run)
           \/ \E dry_run \in BOOLEAN :
                RunCli(r, PathNoDir, NoPath, TRUE, NoPath, FALSE, dry_run)
           \/ \E cloned \in BOOLEAN, output \in {NoPath, PathOut}, dry_run \in BOOLEAN :
                RunCli(r, NoPath, RepoUrl, cloned, output, TRUE, dry_run)
           \/ \E directory \in {PathIn, PathSub, PathNoDir},
                 recursive \in BOOLEAN, dry_run \in BOOLEAN :
                RenameCall(r, directory, recursive, dry_run)

SpecRename == InitRename /\ [][NextRename]_vars

\* SpecSplice: splice_card_photos.py over every INPUT_DIR that holds up to
\* three IMG_*.JPG photographs and, possibly, a file the pattern leaves out
PhotoNames ==
    {<<"I", "M", "G", "_", "1", ".", "J", "P", "G">>,
     <<"I", "M", "G", "_", "2", ".", "J", "P", "G">>,
     <<"I", "M", "G", "_", "3", ".", "J", "P", "G">>}

OtherName == <<"I", "M", "G", "_", "1", ".", "j", "p", "g">>

\* two cards (the right one found first), a contour that is too small and
\* a square one
TwoCards ==
    Image(100, 100, <<Box(50, 10, 20, 35), Box(10, 10, 20, 35),
                      Box(0, 0, 5, 8), Box(30, 60, 40, 40)>>)

\* the only contour is the whole image
NoCards == Image(100, 100, <<Box(0, 0, 100, 100)>>)

Photos == {TwoCards, NoCards, Unreadable}

InputListings ==
    UNION {[names -> Photos] : names \in SUBSET (PhotoNames \cup {OtherName})}

InitSplice ==
    /\ \E l \in InputListings :
         inputDir = {[name |-> n, img |-> l[n]] : n \in DOMAIN l}
    /\ outputDir = {}
    /\ tree = DirNode(<<>>)
    /\ rawDir = [d \in Decks |-> NoDir]
    /\ adapterDir = [d \in Decks |-> 0]
    /\ indexFile = [d \in Decks |-> NoFile(<<>>)]
    /\ metaFile = [d \in Decks |-> NoFile(<<>>)]
    /\ exportFile = [p \in ExportPaths |-> NoFile(EmptyDocument)]
    /\ InitRunners

NextSplice ==
    \E r \in SeqRunners :
        /\ runs < MaxSpliceRuns
        /\ SpliceMain(r)

SpecSplice == InitSplice /\ [][NextSplice]_vars

-----------------------------------------------------------------------------
(* Properties *)

\* the positions of the lines of runner r whose text is in T
LinesOf(r, T) == {i \in 1..Len(stdout[r]) : stdout[r][i].text \in T}

Printed(r, text) == LinesOf(r, {text}) # {}

\* runner r ran the command and the process has ended
Finished(r, name) == cmd[r].name = name /\ pc[r] = "idle"

\* the last command of runner r was a build that returned after its two
\* artifact writes
BuildSaved(r) ==
    /\ Finished(r, "build")
    /\ exit[r] = 0
    /\ Printed(r, "Saved metadata to")

\* the last command of runner r was a query that reached the search
QuerySearched(r) == Finished(r, "query") /\ Printed(r, "Query")

ResultLines(r) == LinesOf(r, {"Rank", "Unknown Index"})

\* C1: after a build that returned after its artifact writes, the persisted
\* index of the deck holds as many vectors as the persisted metadata list
\* holds records.
C1_IndexCountEqualsMetadataCount ==
    \A r \in Runners :
        BuildSaved(r) =>
            /\ indexFile[cmd[r].deck].exists
            /\ metaFile[cmd[r].deck].exists
            /\ Len(indexFile[cmd[r].deck].content) = Len(metaFile[cmd[r].deck].content)

\* a build of the three-image rws directory in which one image failed has
\* saved two vectors
C1_Witness ==
    \E r \in Runners :
        /\ BuildSaved(r)
        /\ cmd[r].deck = "rws"
        /\ Printed(r, "Error processing")
        /\ Len(indexFile["rws"].content) = 2

\* C2: after a successful build the metadata record at list position p has
\* id = p, also when images of the directory were skipped.
C2_IdEqualsPosition ==
    \A r \in Runners :
        BuildSaved(r) =>
            \A p \in 1..Len(metaFile[cmd[r].deck].content) :
                metaFile[cmd[r].deck].content[p].id = p - 1

\* C3: a query of an index holding total < K vectors reports exactly total
\* results and ends without an error.
C3_ExactlyTotalResults ==
    \A r \in Runners :
        QuerySearched(r) =>
            /\ exit[r] = 0
            /\ Cardinality(ResultLines(r)) =
                  IF Len(indexFile[cmd[r].deck].content) < K
                  THEN Len(indexFile[cmd[r].deck].content)
                  ELSE K

\* C4: every position the search returns that lies outside
\* 0..len(metadata)-1 is reported as an unknown index and is never used to
\* read a metadata record, and the query still reports all K results.
C4_PositionsCheckedBeforeLookup ==
    \A r \in Runners :
        QuerySearched(r) =>
            /\ exit[r] = 0
            /\ Cardinality(ResultLines(r)) = K
            /\ \A i \in LinesOf(r, {"Rank"}) :
                 /\ stdout[r][i].idx >= 0
                 /\ stdout[r][i].idx < Len(metaFile[cmd[r].deck].content)

\* the image files of a deck's source directory
ImagesIn(deck) == {f \in Range(ListDir(rawDir[deck])) : IsImageFile(f)}

\* C5: a step that starts a build over a directory that is missing, holds
\* no image file, or whose image files all fail ends the build at once:
\* index, metadata and export files are unchanged and an explanatory message
\* is printed.
C5_AbortWritesNothing ==
    [][\A r \in Runners :
          ( /\ pc[r] = "idle"
            /\ cmd'[r].name = "build"
            /\ runs' = runs + 1
            /\ \/ ~rawDir[cmd'[r].deck].exists
               \/ Cardinality({i \in 1..Len(stdout'[r]) :
                                 stdout'[r][i].text = "Error processing"})
                    = Cardinality(ImagesIn(cmd'[r].deck)) )
          => /\ pc'[r] = "idle"
             /\ <<indexFile, metaFile, exportFile>>' = <<indexFile, metaFile, exportFile>>
             /\ \E i \in 1..Len(stdout'[r]) :
                  stdout'[r][i].text \in {"Error: Image directory not found",
                                          "No images found",
                                          "No embeddings generated"}]_vars

\* a build of the custom deck in which both images failed has ended and
\* left no index and no metadata
C5_Witness ==
    \E r \in Runners :
        /\ Finished(r, "build")
        /\ cmd[r].deck = "custom"
        /\ Cardinality(LinesOf(r, {"Error processing"})) = 2
        /\ Printed(r, "No embeddings generated")
        /\ ~indexFile["custom"].exists
        /\ ~metaFile["custom"].exists

\* an export file holding a JSON object whose deckStyles member, when
\* present, is an object
WellFormed(file) ==
    /\ file.exists
    /\ file.content.kind = "object"
    /\ file.content.ds.kind \in {"object", "absent"}

\* C6: the export write of a successful build over a well-formed document
\* keeps the entry of every other deck as it was and holds the entry of the
\* built deck; no other step of a build changes the export document.
C6_ExportKeepsOtherDecks ==
    [][/\ (\A r \in Runners : pc[r] # "export_write") => exportFile' = exportFile
       /\ \A r \in Runners :
            ( /\ pc[r] = "export_write"
              /\ exit'[r] = 0
              /\ WellFormed(exportFile[loc[r].export_json]) )
            => LET old == exportFile[loc[r].export_json].content.ds.map
                   new == exportFile'[loc[r].export_json].content.ds.map
                   id == AppDeckId(cmd[r].deck)
               IN  /\ WellFormed(exportFile'[loc[r].export_json])
                   /\ id \in DOMAIN new
                   /\ \A d \in (DOMAIN old) \ {id} :
                        d \in DOMAIN new /\ new[d] = old[d]]_vars

\* the scenario: the document that held marseille with its 5 cards holds,
\* after a build of rws, both rws-1909 and marseille with the same 5 cards
C6_Witness ==
    /\ WellFormed(exportFile[ExportPathDoc])
    /\ DOMAIN exportFile[ExportPathDoc].content.ds.map = {"marseille", "rws-1909"}
    /\ exportFile[ExportPathDoc].content.ds.map["marseille"] = OldExport.ds.map["marseille"]
    /\ Cardinality(DOMAIN exportFile[ExportPathDoc].content.ds.map["marseille"].cards) = 5
    /\ \E r \in Runners : BuildSaved(r) /\ cmd[r].deck = "rws"

\* C7: a build that reaches the export of the documented export path ends
\* without an unhandled error and leaves a document holding the deck's
\* entry, whatever the export file held before.
C7_MalformedExportTolerated ==
    \A r \in Runners :
        ( /\ Finished(r, "build")
          /\ \E i \in LinesOf(r, {"Exporting embeddings to JSON for web app"}) :
               stdout[r][i].arg = ExportPathDoc )
        => /\ exit[r] = 0
           /\ WellFormed(exportFile[ExportPathDoc])
           /\ AppDeckId(cmd[r].deck) \in DOMAIN exportFile[ExportPathDoc].content.ds.map

\* C8: a build of the directory {01_fool.jpg, 02_magician.jpg,
\* 03_priestess.jpg} in which no image fails yields the metadata in file-name
\* order with ids 0, 1, 2, whatever order the directory listing has.
C8_MetadataInFileNameOrder ==
    \A r \in Runners :
        ( /\ BuildSaved(r)
          /\ cmd[r].deck = "rws"
          /\ ~Printed(r, "Error processing") )
        => metaFile["rws"].content =
             << [id |-> 0, filename |-> File01,
                 card_name |-> <<"0", "1", " ", "f", "o", "o", "l">>],
                [id |-> 1, filename |-> File02,
                 card_name |-> <<"0", "2", " ", "m", "a", "g", "i", "c", "i", "a", "n">>],
                [id |-> 2, filename |-> File03,
                 card_name |-> <<"0", "3", " ", "p", "r", "i", "e", "s", "t", "e", "s", "s">>] >>

\* the model variant the running build of runner r announced
AnnouncedVariant(r) ==
    IF stdout[r][2].text = "Using base model"
    THEN BaseModel
    ELSE Fused(stdout[r][2].arg[3])

\* C9: a running build uses the model variant the query selects for the
\* same deck in the same state of the adapter directory.
C9_SameAdapterRule ==
    \A r \in Runners :
        (cmd[r].name = "build" /\ pc[r] # "idle") =>
            AnnouncedVariant(r) = QueryVariant(cmd[r].deck)

\* C10: a build of a deck whose source directory does not exist ends with a
\* non-zero exit status and a message naming the directory.
C10_MissingDirectoryExitsNonZero ==
    \A r \in Runners :
        (Finished(r, "build") /\ ~rawDir[cmd[r].deck].exists) =>
            /\ exit[r] # 0
            /\ \E i \in LinesOf(r, {"Error: Image directory not found"}) :
                 stdout[r][i].arg = ImageDirPath(cmd[r].deck)

\* C11: a query of a deck whose index file or metadata file is missing ends
\* with a non-zero exit status and a message naming both expected file
\* paths, and neither loads a model nor searches.
C11_MissingIndexExitsNonZero ==
    \A r \in Runners :
        ( /\ Finished(r, "query")
          /\ ~indexFile[cmd[r].deck].exists \/ ~metaFile[cmd[r].deck].exists )
        => /\ exit[r] # 0
           /\ \E i \in 1..Len(stdout[r]) : stdout[r][i].arg = IndexPath(cmd[r].deck)
           /\ \E i \in 1..Len(stdout[r]) : stdout[r][i].arg = MetadataPath(cmd[r].deck)
           /\ ~Printed(r, "Loaded index with vectors")
           /\ ~Printed(r, "Query")

\* the files of a build's error messages
FailedFiles(r) == {stdout[r][i].arg : i \in LinesOf(r, {"Error processing"})}

\* the image files of the deck's directory that the build of runner r did
\* not report as failed, in listing order
Succeeded(r) ==
    LET Ok(f) == IsImageFile(f) /\ f \notin FailedFiles(r)
    IN  SelectSeq(ListDir(rawDir[cmd[r].deck]), Ok)

\* C12: a failure on one image does not abort the build: the file is
\* skipped with a printed message, every other image is processed, and the
\* saved index and metadata hold exactly the images that did not fail.
C12_FailedImageSkipped ==
    \A r \in Runners :
        (Finished(r, "build") /\ rawDir[cmd[r].deck].exists) =>
            LET deck == cmd[r].deck
                ok == Succeeded(r)
            IN  /\ FailedFiles(r) \subseteq ImagesIn(deck)
                /\ Cardinality(LinesOf(r, {"Error processing"}))
                     = Cardinality(FailedFiles(r))
                /\ (ok # <<>> /\ exit[r] = 0) => BuildSaved(r)
                /\ BuildSaved(r) =>
                     /\ Len(metaFile[deck].content) = Len(ok)
                     /\ Len(indexFile[deck].content) = Len(ok)
                     /\ \A p \in 1..Len(ok) :
                          /\ metaFile[deck].content[p].filename = ok[p]
                          /\ indexFile[deck].content[p]
                               = ImageEmbeddings[AnnouncedVariant(r)][ok[p]]

\* a build of rws whose first listed image failed has saved the two images
\* listed after it
C12_Witness ==
    \E r \in Runners :
        /\ BuildSaved(r)
        /\ cmd[r].deck = "rws"
        /\ FailedFiles(r) = {ListDir(rawDir["rws"])[1]}
        /\ Len(metaFile["rws"].content) = 2
        /\ metaFile["rws"].content[2].filename = ListDir(rawDir["rws"])[3]

\* the number of vectors of the deck's persisted index and of records of
\* its persisted metadata list; a missing file holds none
Vectors(d) == IF indexFile[d].exists THEN Len(indexFile[d].content) ELSE 0

Records(d) == IF metaFile[d].exists THEN Len(metaFile[d].content) ELSE 0

\* C13 as stated: at every moment the persisted metadata list of a deck
\* has as many elements as the persisted index has vectors.
C13_CountsEqualAtEveryMoment ==
    \A d \in Decks :
        (indexFile[d].exists /\ metaFile[d].exists) => Records(d) = Vectors(d)

\* C13: the two counts of a deck become unequal only by the index write of
\* a build of that deck, and are equal again after the metadata write of
\* a build of that deck; between the two writes, and after a run that was
\* interrupted there, they can differ.
C13_CountsDifferOnlyBetweenWrites ==
    [][\A d \in Decks :
          /\ (Vectors(d) = Records(d) /\ Vectors(d)' # Records(d)')
               => \E r \in Runners : /\ cmd[r].deck = d
                                     /\ pc[r] = "write_index"
                                     /\ pc'[r] = "write_meta"
          /\ \A r \in Runners :
               ( /\ cmd[r].deck = d
                 /\ pc[r] = "write_meta"
                 /\ pc'[r] # "write_meta"
                 /\ exit'[r] # 137 )
               => Vectors(d)' = Records(d)']_vars

\* a rebuild of rws was interrupted between its two writes: the new index
\* holds three vectors, the metadata list of the earlier build two records
C13_Witness ==
    \E r \in Runners :
        /\ Finished(r, "build")
        /\ cmd[r].deck = "rws"
        /\ exit[r] = 137
        /\ indexFile["rws"].exists /\ metaFile["rws"].exists
        /\ Vectors("rws") = 3
        /\ Records("rws") = 2

\* the results of searching the deck's persisted index with its own row p
SelfSearch(d, p) ==
    Search(indexFile[d].content, indexFile[d].content[p], K)

\* C14 as stated: searching a built index with the embedding of one of its
\* entries returns that entry at rank 1 with score 1.
C14_RoundTripReturnsEntry ==
    \A r \in Runners :
        BuildSaved(r) =>
            \A p \in 1..Vectors(cmd[r].deck) :
                \A found \in SelfSearch(cmd[r].deck, p) :
                    /\ found.I[1] = p - 1
                    /\ found.D[1] = UnitLength * UnitLength

\* C14: searching a built index with the embedding of one of its entries
\* returns at rank 1, with the maximal score 1, an entry whose embedding
\* equals the query and whose metadata record names an image with that
\* embedding; it is the entry itself when no other row holds the same
\* vector.
C14_RoundTripReturnsEqualEmbedding ==
    \A r \in Runners :
        BuildSaved(r) =>
            LET d == cmd[r].deck
                rows == indexFile[d].content
            IN  \A p \in 1..Vectors(d) :
                    \A found \in SelfSearch(d, p) :
                        /\ found.D[1] = UnitLength * UnitLength
                        /\ \A i \in 1..K : found.D[i] <= found.D[1]
                        /\ found.I[1] \in 0..(Vectors(d) - 1)
                        /\ rows[found.I[1] + 1] = rows[p]
                        /\ ImageEmbeddings[AnnouncedVariant(r)]
                                          [metaFile[d].content[found.I[1] + 1].filename]
                             = rows[p]
                        /\ (\A o \in 1..Vectors(d) : rows[o] = rows[p] => o = p)
                             => found.I[1] = p - 1

\* a build of the custom deck has saved two equal vectors (the picture and
\* its copy) beside the rws index of three different vectors
C14_Witness ==
    \E r \in Runners :
        /\ BuildSaved(r)
        /\ cmd[r].deck = "custom"
        /\ Vectors("custom") = 2
        /\ indexFile["custom"].content[1] = indexFile["custom"].content[2]
        /\ Vectors("rws") = 3
        /\ \A p, o \in 1..3 :
             indexFile["rws"].content[p] = indexFile["rws"].content[o] => p = o

\* the last command of runner r was a build that wrote the export document
\* at path
Exported(r, path) ==
    /\ Finished(r, "build")
    /\ Printed(r, "Updated export")
    /\ \E i \in LinesOf(r, {"Exporting embeddings to JSON for web app"}) :
         stdout[r][i].arg = path

\* C15: the export document a build wrote holds, under deckStyles, the
\* deck's cards, each with count 1 and as embedding a flat list of d
\* numbers: the vector of one index row, not a list that holds that list.
C15_ExportEmbeddingIsFlat ==
    \A r \in Runners : \A path \in ExportPaths :
        Exported(r, path) =>
            LET d == cmd[r].deck
                doc == exportFile[path].content
                rows == indexFile[d].content
            IN  /\ WellFormed(exportFile[path])
                /\ AppDeckId(d) \in DOMAIN doc.ds.map
                /\ \A c \in DOMAIN doc.ds.map[AppDeckId(d)].cards :
                     LET entry == doc.ds.map[AppDeckId(d)].cards[c]
                     IN  /\ entry.count = 1
                         /\ Len(entry.embedding) = Len(rows[1])
                         /\ \E p \in 1..Len(rows) : entry.embedding = rows[p]

\* the part of a file name before its last dot
BeforeLastDot(s) ==
    LET dots == {i \in 1..Len(s) : s[i] = "."}
    IN  IF dots = {} THEN s
        ELSE SubSeq(s, 1, (CHOOSE i \in dots : \A j \in dots : j <= i) - 1)

\* C16: the card name of every metadata record is the file name without
\* its extension (the part after the last dot), with every '_' and '-'
\* replaced by a space; further dots before the extension are kept.
C16_CardNameStripsExtensionOnly ==
    \A r \in Runners :
        BuildSaved(r) =>
            \A p \in 1..Records(cmd[r].deck) :
                LET rec == metaFile[cmd[r].deck].content[p]
                IN  rec.card_name
                      = Replace(Replace(BeforeLastDot(rec.filename), "_", " "), "-", " ")

\* the lines a step has printed for runner r
PrintedNext(r, text) ==
    \E i \in 1..Len(stdout'[r]) : stdout'[r][i].text = text

\* the step runs the trainer as runner r
TrainStep(r) ==
    /\ pc[r] = "idle"
    /\ cmd'[r].name = "train"
    /\ runs' = runs + 1

\* C17: a training over a missing dataset directory or one without image
\* files prints a warning, trains nothing, leaves every adapter directory
\* as it was and returns with exit status 0; an adapter is saved only by a
\* training over a dataset with images whose loop has completed.
C17_EmptyDatasetWritesNoAdapter ==
    [][/\ (\A r \in Runners : ~TrainStep(r)) => adapterDir' = adapterDir
       /\ \A r \in Runners :
            TrainStep(r) =>
                LET d == cmd'[r].deck
                IN  /\ ImagesIn(d) = {} =>
                         /\ adapterDir' = adapterDir
                         /\ pc'[r] = "idle"
                         /\ exit'[r] = 0
                         /\ PrintedNext(r, "Warning: No images found in")
                         /\ PrintedNext(r, "No data found. Skipping training loop.")
                         /\ ~rawDir[d].exists =>
                              PrintedNext(r, "Warning: Dataset path does not exist")
                         /\ ~PrintedNext(r, "Starting training")
                         /\ ~PrintedNext(r, "LoRA adapters saved to")
                    /\ adapterDir' # adapterDir =>
                         /\ ImagesIn(d) # {}
                         /\ PrintedNext(r, "Starting training")
                         /\ PrintedNext(r, "LoRA adapters saved to")
                         /\ ~PrintedNext(r, "Traceback")
                         /\ exit'[r] = 0
                         /\ \A o \in Decks \ {d} : adapterDir'[o] = adapterDir[o]]_vars

\* a training of the thoth deck, whose directory holds no image, has
\* returned with exit status 0 and the adapter of the earlier training is
\* still the one saved once
C17_Witness ==
    \E r \in Runners :
        /\ Finished(r, "train")
        /\ cmd[r].deck = "thoth"
        /\ exit[r] = 0
        /\ Printed(r, "No data found. Skipping training loop.")
        /\ adapterDir["thoth"] = 1

\* a vector of Euclidean norm 1
IsUnit(v) == Dot(v, v) = UnitLength * UnitLength

\* the query text of the last command of runner r
QueryText(r) == stdout[r][CHOOSE i \in LinesOf(r, {"Query"}) : TRUE].arg

\* C18: every vector the builder inserts into an index, and every query
\* vector the query searches with, has Euclidean norm 1.
C18_VectorsHaveUnitNorm ==
    /\ \A d \in Decks : \A p \in 1..Vectors(d) : IsUnit(indexFile[d].content[p])
    /\ \A r \in Runners :
         /\ pc[r] \in {"write_index", "write_meta"} =>
              \A p \in 1..Len(loc[r].index) : IsUnit(loc[r].index[p])
         /\ QuerySearched(r) =>
              IsUnit(TextEmbeddings[QueryVariant(cmd[r].deck)][QueryText(r)])

\* a query has searched the two or more vectors that a build of rws with
\* the fused adapter inserted
C18_Witness ==
    \E r \in Runners :
        /\ QuerySearched(r)
        /\ cmd[r].deck = "rws"
        /\ adapterDir["rws"] > 0
        /\ Vectors("rws") >= 2

\* the key the export document is to hold for a deck name
ExpectedDeckKey(deck) ==
    CASE deck = "rws" -> "rws-1909"
      [] deck = "thoth" -> "thoth"
      [] deck = "marseille" -> "marseille"
      [] OTHER -> deck

\* C19: a build that writes the export document sets or replaces exactly
\* one key of deckStyles: the table value of the deck name, or the deck
\* name itself when the table does not hold it.
C19_ExportKeyFromTable ==
    [][\A r \in Runners :
          (pc[r] = "export_write" /\ exit'[r] = 0) =>
              LET path == loc[r].export_json
                  old == IF WellFormed(exportFile[path])
                         THEN exportFile[path].content.ds.map
                         ELSE EmptyMap
                  new == exportFile'[path].content.ds.map
                  id == ExpectedDeckKey(cmd[r].deck)
              IN  /\ DOMAIN new = (DOMAIN old) \cup {id}
                  /\ \A k \in (DOMAIN old) \ {id} : new[k] = old[k]
                  /\ \A c \in DOMAIN new[id].cards :
                       \E p \in 1..Len(loc[r].metadata) :
                           loc[r].metadata[p].card_name = c
                  /\ \E i \in 1..Len(stdout'[r]) :
                       /\ stdout'[r][i].text = "Updated export"
                       /\ stdout'[r][i].arg = id]_vars

\* after a build of rws and a build of the custom deck the document holds
\* the keys rws-1909 and custom
C19_Witness ==
    \E r \in Runners :
        /\ Exported(r, ExportPathDoc)
        /\ cmd[r].deck = "custom"
        /\ {"rws-1909", "custom"} \subseteq DOMAIN exportFile[ExportPathDoc].content.ds.map
        /\ "rws" \notin DOMAIN exportFile[ExportPathDoc].content.ds.map

\* the position of the "Query" line in the output of runner r
QueryLine(r) == CHOOSE i \in LinesOf(r, {"Query"}) : TRUE

\* C20: the result lines of a query follow each other with the ranks
\* 1, 2, 3, ...; the line of rank i reports the i-th position and score
\* of one result of the index search, and the scores do not increase.
C20_RanksFollowSearchOrder ==
    \A r \in Runners :
        QuerySearched(r) =>
            LET d == cmd[r].deck
                n == Cardinality(ResultLines(r))
                line(i) == stdout[r][QueryLine(r) + i]
            IN  /\ ResultLines(r) = (QueryLine(r) + 1)..(QueryLine(r) + n)
                /\ exit[r] = 0 => n = K
                /\ \E found \in Search(indexFile[d].content,
                                       TextEmbeddings[QueryVariant(d)][QueryText(r)], K) :
                     \A i \in 1..n :
                        /\ line(i).rank = i
                        /\ line(i).idx = found.I[i]
                        /\ line(i).text = "Rank" => line(i).score = found.D[i]
                        /\ i > 1 => found.D[i] <= found.D[i - 1]

\* a query of the marseille index has reported five cards, the first with
\* a higher score than the last
C20_Witness ==
    \E r \in Runners :
        /\ QuerySearched(r)
        /\ cmd[r].deck = "marseille"
        /\ Cardinality(LinesOf(r, {"Rank"})) = K
        /\ \A i \in 1..K : stdout[r][QueryLine(r) + i].idx >= 0
        /\ stdout[r][QueryLine(r) + 1].score > stdout[r][QueryLine(r) + K].score

\* C23: no lock orders the writes of two builder runs: a run that has
\* reached one of its two file writes can always take it, whatever the
\* other run is doing, so the writes of two runs of one deck interleave.
C23_NoLockBetweenBuilders ==
    \A r \in Runners :
        /\ pc[r] = "write_index" => ENABLED BuildWriteIndex(r)
        /\ pc[r] = "write_meta" => ENABLED BuildWriteMeta(r)

\* two runs of the rws build have both returned after their writes, and
\* the persisted index of three vectors is that of one run, the metadata
\* of two records that of the other
C23_Witness ==
    /\ \A r \in Runners : BuildSaved(r) /\ cmd[r].deck = "rws"
    /\ Vectors("rws") = 3
    /\ Records("rws") = 2

\* C24: the read-merge-write of the export document is not protected: a
\* build that has reached the read or the write of the document can always
\* take it, also after another build has read the same document and before
\* that build writes it.
C24_ExportNotProtected ==
    \A r \in Runners :
        /\ pc[r] = "export_read" => ENABLED BuildExportRead(r)
        /\ pc[r] = "export_write" => ENABLED BuildExportWrite(r)

\* a build of rws and a build of the custom deck have both written the
\* same export document and returned, and the document holds the entry of
\* only one of them
C24_Witness ==
    /\ \A r \in Runners : Exported(r, ExportPathDoc)
    /\ {cmd[r].deck : r \in Runners} = {"rws", "custom"}
    /\ WellFormed(exportFile[ExportPathDoc])
    /\ Cardinality(DOMAIN exportFile[ExportPathDoc].content.ds.map) = 1

\* C25: the writes of one build happen in a fixed order.  The index file
\* is written first, from the whole matrix of the embeddings; the metadata
\* file is written only when the index file holds this build's index; the
\* export document is written only when both files hold this build's
\* data; a step in which a write fails ends the build and writes nothing.
C25_WritesInFixedOrder ==
    [][/\ indexFile' # indexFile =>
            \E r \in Runners :
                /\ pc[r] = "write_index"
                /\ indexFile' = [indexFile EXCEPT ![cmd[r].deck] =
                                    File(VStack(loc[r].embeddings))]
                /\ metaFile' = metaFile
                /\ exportFile' = exportFile
       /\ metaFile' # metaFile =>
            \E r \in Runners :
                /\ pc[r] = "write_meta"
                /\ indexFile[cmd[r].deck] = File(loc[r].index)
                /\ metaFile' = [metaFile EXCEPT ![cmd[r].deck] = File(loc[r].metadata)]
                /\ indexFile' = indexFile
                /\ exportFile' = exportFile
       /\ exportFile' # exportFile =>
            \E r \in Runners :
                /\ pc[r] = "export_write"
                /\ indexFile[cmd[r].deck] = File(loc[r].index)
                /\ metaFile[cmd[r].deck] = File(loc[r].metadata)
                /\ indexFile' = indexFile
                /\ metaFile' = metaFile
       /\ \A r \in Runners :
            (pc[r] # "idle" /\ exit'[r] = 1) =>
                /\ pc'[r] = "idle"
                /\ <<indexFile, metaFile, exportFile>>' = <<indexFile, metaFile, exportFile>>]_vars

\* the metadata write of a build of rws with export has failed after its
\* index write: the index is on disk, the metadata file and the export
\* document are not
C25_Witness ==
    \E r \in Runners :
        /\ Finished(r, "build")
        /\ cmd[r].deck = "rws"
        /\ exit[r] = 1
        /\ \E i \in LinesOf(r, {"Traceback"}) : stdout[r][i].arg = "PermissionError"
        /\ indexFile["rws"].exists
        /\ ~metaFile["rws"].exists
        /\ ~exportFile[ExportPathDoc].exists

\* C26: after a build with export, the deck's entry of the export document
\* holds, for the metadata record at every row p, a card keyed by the
\* record's card name whose embedding is index row p (as a flat or as a
\* nested list), and it holds as many cards as there are metadata records.
C26_ExportHoldsEveryRecord ==
    \A r \in Runners : \A path \in ExportPaths :
        Exported(r, path) =>
            LET d == cmd[r].deck
                cards == exportFile[path].content.ds.map[AppDeckId(d)].cards
            IN  /\ Cardinality(DOMAIN cards) = Records(d)
                /\ \A p \in 1..Records(d) :
                     LET m == metaFile[d].content[p]
                     IN  /\ m.card_name \in DOMAIN cards
                         /\ \/ cards[m.card_name].embedding = indexFile[d].content[p]
                            \/ cards[m.card_name].embedding = <<indexFile[d].content[p]>>

\* the step runs rename.py as runner r
CliStep(r) ==
    /\ pc[r] = "idle"
    /\ cmd'[r].name = "rename"
    /\ runs' = runs + 1

\* the step calls rename_and_modify_files_to_md as runner r
CallStep(r) ==
    /\ pc[r] = "idle"
    /\ cmd'[r].name = "rename_and_modify_files_to_md"
    /\ runs' = runs + 1

Elements(s) == {s[i] : i \in 1..Len(s)}

RECURSIVE FilesUnder(_, _, _)
\* the paths of the files of directory dir of tree t, and of the files of
\* its subdirectories when recursive
FilesUnder(t, dir, recursive) ==
    LET node == Get(t, dir)
    IN  {Append(dir, n) : n \in Elements(Names(node, {"file"}))}
        \cup (IF recursive
              THEN UNION {FilesUnder(t, Append(dir, d), TRUE) :
                            d \in Elements(Names(node, {"dir"}))}
              ELSE {})

Parent(p) == SubSeq(p, 1, Len(p) - 1)

Basename(p) == p[Len(p)]

\* <stem>.md beside the file at path p
MdPath(p) == Append(Parent(p), SplitExt(Basename(p)).root \o MdExt)

Supported(p) == Lower(SplitExt(Basename(p)).ext) \in DOMAIN ExtensionLangs

Language(p) == ExtensionLangs[Lower(SplitExt(Basename(p)).ext)]

\* the patterns of the .gitignore at the top of directory dir
RootPatterns(t, dir) == ParseGitignore(Get(t, Append(dir, GitignoreName)))

\* a pattern of the root .gitignore matches the file at p or one of the
\* directories between dir and the file
Ignored(t, dir, p) ==
    \E k \in (Len(dir) + 1)..Len(p) : ShouldIgnore(SubSeq(p, 1, k), RootPatterns(t, dir))

\* the files of a run over dir that have a supported extension and match no
\* pattern
Candidates(t, dir, recursive) ==
    {p \in FilesUnder(t, dir, recursive) : Supported(p) /\ ~Ignored(t, dir, p)}

\* the position of the file at p in the listing of its directory
ListedAt(t, p) == CHOOSE i \in EntryAt(Get(t, Parent(p)), Basename(p)) : TRUE

\* the file at p has the content of language and text in a fence
IsWrapped(t, p, language, text) ==
    /\ Get(t, p).kind = "file"
    /\ Get(t, p).content = Wrap(language, text)

\* C21: a run of the rename command line with --dry-run changes nothing in
\* the file system, whatever -d/-u, -o and -r are.
C21_DryRunChangesNothing ==
    [][\A r \in SeqRunners :
          CliStep(r) /\ cmd'[r].args.dry_run => tree' = tree]_vars

\* C22: a non-dry call of rename_and_modify_files_to_md leaves every file
\* that has a supported extension, matches no pattern of the root .gitignore
\* and has no same-stem .md (nor a second candidate of its stem) beside it
\* as <stem>.md holding the fence with its language, its original content
\* and the closing fence; this holds for each such file whatever happens to
\* the other files.
C22_EveryEligibleFileWrapped ==
    [][\A r \in SeqRunners :
          CallStep(r) /\ ~cmd'[r].args.dry_run =>
            LET dir == cmd'[r].args.directory
                files == Candidates(tree, dir, cmd'[r].args.recursive)
            IN  \A p \in files :
                    /\ ~Exists(tree, MdPath(p))
                    /\ \A q \in files : MdPath(q) = MdPath(p) => q = p
                    => /\ ~Exists(tree', p)
                       /\ IsWrapped(tree', MdPath(p), Language(p),
                                    Get(tree, p).content)]_vars

\* C27: a run of the rename command line with -d leaves the input directory
\* and everything below it as it was, whatever -o is and whether or not the
\* default copy location exists.
C27_InputDirectoryUntouched ==
    [][\A r \in SeqRunners :
          CliStep(r) /\ cmd'[r].args.directory # NoPath =>
            Get(tree', cmd'[r].args.directory) = Get(tree, cmd'[r].args.directory)]_vars

\* C28: a call of rename_and_modify_files_to_md changes no existing .md
\* file; a candidate whose <stem>.md exists is reported as skipped and
\* keeps its name and content; of the candidates of one directory that
\* share a stem only the first listed is renamed (and is <stem>.md after a
\* non-dry call that returns), the later ones keep name and content; and a
\* non-dry call over a directory that the preceding call has processed and
\* returned from changes nothing.
C28_ExistingMdNeverOverwritten ==
    [][\A r \in SeqRunners :
          CallStep(r) =>
            LET a == cmd'[r].args
                dir == a.directory
                files == Candidates(tree, dir, a.recursive)
                Later(p) == \E q \in files : /\ MdPath(q) = MdPath(p)
                                             /\ ListedAt(tree, q) < ListedAt(tree, p)
            IN  /\ \A p \in FilesUnder(tree, <<>>, TRUE) :
                      SplitExt(Basename(p)).ext = MdExt => Get(tree', p) = Get(tree, p)
                /\ \A p \in files :
                      /\ Exists(tree, MdPath(p)) =>
                            /\ Get(tree', p) = Get(tree, p)
                            /\ Msg("Skipping", p) \in Elements(stdout'[r])
                      /\ Later(p) => Get(tree', p) = Get(tree, p)
                      /\ (/\ ~Exists(tree, MdPath(p))
                          /\ ~Later(p)
                          /\ ~a.dry_run
                          /\ exit'[r] = 0)
                         => /\ ~Exists(tree', p)
                            /\ Get(tree', MdPath(p)).kind = "file"
                            /\ Get(tree', MdPath(p)).content # Get(tree, p).content
                                 => IsWrapped(tree', MdPath(p), Language(p),
                                              UniversalNewlines(Get(tree, p).content))
                /\ (/\ cmd[r].name = cmd'[r].name
                    /\ cmd[r].args.directory = dir
                    /\ ~cmd[r].args.dry_run
                    /\ cmd[r].args.recursive \/ ~a.recursive
                    /\ exit[r] = 0)
                   => tree' = tree]_vars

\* two calls over a directory with a.py and a.js: the second call has
\* skipped the file that kept its name, a.md holds the once wrapped content
\* of the first listed file
C28_Witness ==
    LET r == 1
        md == Append(PathIn, <<"a", ".", "m", "d">>)
    IN  /\ Finished(r, "rename_and_modify_files_to_md")
        /\ runs = 2
        /\ exit[r] = 0
        /\ ~cmd[r].args.dry_run
        /\ cmd[r].args.directory = PathIn
        /\ \E n \in {<<"a", ".", "p", "y">>, <<"a", ".", "j", "s">>} :
              /\ Msg("Skipping", Append(PathIn, n)) \in Elements(stdout[r])
              /\ Get(tree, Append(PathIn, n)).kind = "file"
        /\ \E l \in {<<"p", "y", "t", "h", "o", "n">>,
                     <<"j", "a", "v", "a", "s", "c", "r", "i", "p", "t">>},
              c \in {<<"1">>, <<"2">>} :
              IsWrapped(tree, md, l, <<c, <<>>>>)
        /\ ~Printed(r, "Renamed")

\* the photographs of INPUT_DIR that main processes
Matching == {p \in inputDir : FnMatch(p.name, PhotoPattern)}

\* the files of OUTPUT_DIR written for the photograph named name
OutputsOf(name) ==
    {f \in outputDir : \E i \in 0..98 : f.name = OutputName(OutputPrefix(name), i)}

\* C29: a photograph that cannot be read does not fail the run of
\* splice_card_photos: no file is written for it, the remaining photographs
\* are processed and the total is reported.
C29_UnreadablePhotoSkipped ==
    \A r \in SeqRunners :
        Finished(r, "splice") /\ (\E p \in Matching : ~p.img.readable) =>
            /\ exit[r] = 0
            /\ \A p \in Matching :
                  /\ Msg("Processing", p.name) \in Elements(stdout[r])
                  /\ ~p.img.readable => OutputsOf(p.name) = {}
                  /\ p.img.readable =>
                        Cardinality(OutputsOf(p.name))
                          = Len(FindCardsInImage(p.img).card_boxes)
            /\ Msg("Extracted individual cards", Cardinality(outputDir))
                  \in Elements(stdout[r])

====
